---- MODULE Spec2Model ----
(***************************************************************************)
(* A model of atl08kit's filter-expression language (src/atl08kit/expr.py) *)
(* and of the filter stage built on it (src/atl08kit/filters.py).          *)
(*                                                                         *)
(* An expression text is represented by what ast.parse(text, mode="eval")  *)
(* makes of it: a SyntaxError, or the ast.Expression tree, node for node   *)
(* with the field names of Python's ast module (operator and context nodes *)
(* included, since ast.walk visits them).  Python, numpy and pandas values *)
(* are tagged records; every number is an exact fraction <<num, den>>.     *)
(***************************************************************************)
EXTENDS Integers, Sequences, FiniteSets, TLC

\* ------------------------------------------------------------------------
\* Bounds of the model
\* ------------------------------------------------------------------------
MaxRows == 2
MaxInt == 3

\* ------------------------------------------------------------------------
\* Small helpers on sequences
\* ------------------------------------------------------------------------
Range(s) == {s[i] : i \in DOMAIN s}

RECURSIVE Perms(_)
Perms(S) ==
    IF S = {} THEN {<<>>}
    ELSE UNION {{<<x>> \o p : p \in Perms(S \ {x})} : x \in S}

\* ------------------------------------------------------------------------
\* Python values: [t |-> type name, v |-> payload]
\* ------------------------------------------------------------------------
Frac(n, d) == <<n, d>>
PyInt(i) == [t |-> "int", v |-> Frac(i, 1)]
PyBool(b) == [t |-> "bool", v |-> Frac(IF b THEN 1 ELSE 0, 1)]
PyNone == [t |-> "NoneType", v |-> Frac(0, 1)]
PyStr == [t |-> "str", v |-> Frac(0, 1)]
PyTrue == PyBool(TRUE)
PyFalse == PyBool(FALSE)

\* ------------------------------------------------------------------------
\* ast nodes, with the fields ast.iter_child_nodes follows
\* ------------------------------------------------------------------------
Op(k) == [kind |-> k]
Load == [kind |-> "Load"]
Constant(value) == [kind |-> "Constant", value |-> value]
Name(id) == [kind |-> "Name", id |-> id, ctx |-> Load]
UnaryOp(op, operand) == [kind |-> "UnaryOp", op |-> Op(op), operand |-> operand]
BinOp(left, op, right) ==
    [kind |-> "BinOp", left |-> left, op |-> Op(op), right |-> right]
BoolOp(op, values) == [kind |-> "BoolOp", op |-> Op(op), values |-> values]
Compare(left, ops, comparators) ==
    [kind |-> "Compare", left |-> left,
     ops |-> [i \in DOMAIN ops |-> Op(ops[i])], comparators |-> comparators]
Call(func, args, keywords) ==
    [kind |-> "Call", func |-> func, args |-> args, keywords |-> keywords]
Attribute(value, attr) ==
    [kind |-> "Attribute", value |-> value, attr |-> attr, ctx |-> Load]
Keyword(arg, value) == [kind |-> "keyword", arg |-> arg, value |-> value]
Starred(value) == [kind |-> "Starred", value |-> value, ctx |-> Load]
Subscript(value, slice) ==
    [kind |-> "Subscript", value |-> value, slice |-> slice, ctx |-> Load]
IfExp(test, body, orelse) ==
    [kind |-> "IfExp", test |-> test, body |-> body, orelse |-> orelse]
Expression(body) == [kind |-> "Expression", body |-> body]

Num(i) == Constant(PyInt(i))

\* ast.iter_child_nodes: the node-valued fields, in _fields order
iter_child_nodes(n) ==
    CASE n.kind = "Expression" -> <<n.body>>
      [] n.kind = "BoolOp" -> <<n.op>> \o n.values
      [] n.kind = "BinOp" -> <<n.left, n.op, n.right>>
      [] n.kind = "UnaryOp" -> <<n.op, n.operand>>
      [] n.kind = "IfExp" -> <<n.test, n.body, n.orelse>>
      [] n.kind = "Compare" -> <<n.left>> \o n.ops \o n.comparators
      [] n.kind = "Call" -> <<n.func>> \o n.args \o n.keywords
      [] n.kind = "Attribute" -> <<n.value, n.ctx>>
      [] n.kind = "Subscript" -> <<n.value, n.slice, n.ctx>>
      [] n.kind = "Starred" -> <<n.value, n.ctx>>
      [] n.kind = "Name" -> <<n.ctx>>
      [] n.kind = "keyword" -> <<n.value>>
      [] OTHER -> <<>>

\* ast.walk: breadth first, the node itself first
RECURSIVE walk_todo(_, _)
walk_todo(todo, seen) ==
    IF todo = <<>> THEN seen
    ELSE walk_todo(Tail(todo) \o iter_child_nodes(Head(todo)),
                   Append(seen, Head(todo)))

walk(node) == walk_todo(<<node>>, <<>>)

\* ------------------------------------------------------------------------
\* expr.py: the allow-lists
\* ------------------------------------------------------------------------
_ALLOWED_FUNCS == {"abs"}

_ALLOWED_NODES ==
    {"Expression",
     "BoolOp", "BinOp", "UnaryOp", "Compare", "Call",
     "Name", "Load", "Constant",
     "And", "Or", "Not",
     "Add", "Sub", "Mult", "Div", "Pow",
     "UAdd", "USub",
     "Lt", "LtE", "Gt", "GtE", "Eq", "NotEq"}

_ALLOWED_BINOPS == {"Add", "Sub", "Mult", "Div", "Pow"}
_ALLOWED_UNARYOPS == {"UAdd", "USub", "Not"}
_ALLOWED_BOOLOPS == {"And", "Or"}
_ALLOWED_CMPOPS == {"Lt", "LtE", "Gt", "GtE", "Eq", "NotEq"}

\* ------------------------------------------------------------------------
\* Exceptions: [type, msg, arg]; NoExc stands for "nothing raised"
\* ------------------------------------------------------------------------
Exc(type, msg, arg) == [type |-> type, msg |-> msg, arg |-> arg]
ExprError(msg, arg) == Exc("ExprError", msg, arg)
NoExc == Exc("", "", <<>>)

\* ------------------------------------------------------------------------
\* expr.py: _validate_ast, _collect_names, compile_expr
\* ------------------------------------------------------------------------
\* a call that accepts any function name
validate_call_any_name(n) ==
    IF n.func.kind # "Name"
    THEN ExprError("Only simple function calls like abs(x) are allowed.", <<>>)
    ELSE IF Len(n.keywords) # 0
    THEN ExprError("Keyword arguments are not allowed in function calls.", <<>>)
    ELSE IF Len(n.args) # 1
    THEN ExprError("Function must take exactly 1 argument: ", <<n.func.id>>)
    ELSE NoExc

\* a call that accepts any number of positional arguments
validate_call_any_arity(n) ==
    IF n.func.kind # "Name"
    THEN ExprError("Only simple function calls like abs(x) are allowed.", <<>>)
    ELSE IF n.func.id \notin _ALLOWED_FUNCS
    THEN ExprError("Function is not allowed: ", <<n.func.id>>)
    ELSE IF Len(n.keywords) # 0
    THEN ExprError("Keyword arguments are not allowed in function calls.", <<>>)
    ELSE NoExc

\* The checks _validate_ast makes on a Call node, in source order.
validate_call(n) ==
    IF n.func.kind # "Name"
    THEN ExprError("Only simple function calls like abs(x) are allowed.", <<>>)
    ELSE IF n.func.id \notin _ALLOWED_FUNCS
    THEN ExprError("Function is not allowed: ", <<n.func.id>>)
    ELSE IF Len(n.keywords) # 0
    THEN ExprError("Keyword arguments are not allowed in function calls.", <<>>)
    ELSE IF Len(n.args) # 1
    THEN ExprError("Function must take exactly 1 argument: ", <<n.func.id>>)
    ELSE NoExc

\* The checks _validate_ast makes on one node, in source order.
validate_node(n) ==
    IF n.kind \notin _ALLOWED_NODES
    THEN ExprError("Disallowed syntax: ", <<n.kind>>)
    ELSE IF n.kind = "BinOp" /\ n.op.kind \notin _ALLOWED_BINOPS
    THEN ExprError("Disallowed operator: ", <<n.op.kind>>)
    ELSE IF n.kind = "UnaryOp" /\ n.op.kind \notin _ALLOWED_UNARYOPS
    THEN ExprError("Disallowed unary operator: ", <<n.op.kind>>)
    ELSE IF n.kind = "BoolOp" /\ n.op.kind \notin _ALLOWED_BOOLOPS
    THEN ExprError("Disallowed boolean operator: ", <<n.op.kind>>)
    ELSE IF n.kind = "Compare"
            /\ \E i \in DOMAIN n.ops : n.ops[i].kind \notin _ALLOWED_CMPOPS
    THEN LET i == CHOOSE j \in DOMAIN n.ops :
                      /\ n.ops[j].kind \notin _ALLOWED_CMPOPS
                      /\ \A k \in 1..(j - 1) : n.ops[k].kind \in _ALLOWED_CMPOPS
         IN ExprError("Disallowed comparison operator: ", <<n.ops[i].kind>>)
    ELSE IF n.kind = "Call" THEN validate_call(n)
    ELSE NoExc

\* for n in ast.walk(node): the first check that raises ends the walk
RECURSIVE validate_nodes(_)
validate_nodes(nodes) ==
    IF nodes = <<>> THEN NoExc
    ELSE IF validate_node(Head(nodes)) # NoExc THEN validate_node(Head(nodes))
    ELSE validate_nodes(Tail(nodes))

_validate_ast(node) == validate_nodes(walk(node))

_collect_names(node) == {n.id : n \in {m \in Range(walk(node)) : m.kind = "Name"}}

\* An expression text, as ast.parse sees it
Text(tree) == [parses |-> TRUE, tree |-> Expression(tree)]
BadText == [parses |-> FALSE, tree |-> Expression(Load)]

CompiledExpr(expr, ast_tree, names) ==
    [expr |-> expr, ast_tree |-> ast_tree, names |-> names]
NoCompiled == CompiledExpr(BadText, Expression(Load), {})

\* compile_expr(expr): [exc |-> what it raises, ret |-> what it returns]
compile_expr(expr) ==
    IF ~expr.parses
    THEN [exc |-> ExprError("Invalid expression syntax: ", <<>>), ret |-> NoCompiled]
    ELSE IF _validate_ast(expr.tree) # NoExc
    THEN [exc |-> _validate_ast(expr.tree), ret |-> NoCompiled]
    ELSE [exc |-> NoExc,
          ret |-> CompiledExpr(expr, expr.tree,
                               {n \in _collect_names(expr.tree) : n \notin _ALLOWED_FUNCS})]

\* ------------------------------------------------------------------------
\* Exact fractions with the IEEE specials: <<1,0>> inf, <<-1,0>> -inf, <<0,0>> nan
\* ------------------------------------------------------------------------
IAbs(n) == IF n < 0 THEN -n ELSE n
ISign(n) == IF n < 0 THEN -1 ELSE IF n > 0 THEN 1 ELSE 0

RECURSIVE GCD(_, _)
GCD(a, b) == IF b = 0 THEN a ELSE GCD(b, a % b)

FNorm(n, d) ==
    IF d = 0 THEN <<ISign(n), 0>>
    ELSE LET g == GCD(IAbs(n), IAbs(d))
         IN <<(ISign(d) * n) \div g, IAbs(d) \div g>>

FNan == <<0, 0>>
FIsNan(a) == a = FNan
FIsInt(a) == a[2] = 1
FNeg(a) == <<-a[1], a[2]>>
FAdd(a, b) == FNorm(a[1] * b[2] + b[1] * a[2], a[2] * b[2])
FSub(a, b) == FAdd(a, FNeg(b))
FMul(a, b) == FNorm(a[1] * b[1], a[2] * b[2])
FDiv(a, b) == FNorm(a[1] * b[2], a[2] * b[1])
FAbs(a) == <<IAbs(a[1]), a[2]>>
FLt(a, b) ==
    /\ ~FIsNan(a)
    /\ ~FIsNan(b)
    /\ IF a[2] = 0 /\ b[2] = 0 THEN a[1] < b[1] ELSE a[1] * b[2] < b[1] * a[2]
FEq(a, b) == ~FIsNan(a) /\ ~FIsNan(b) /\ a = b

RECURSIVE FPow(_, _)
FPow(a, k) == IF k = 0 THEN <<1, 1>> ELSE FMul(a, FPow(a, k - 1))

\* Two's complement & and | on unbounded integers
RECURSIVE BitAnd(_, _)
BitAnd(a, b) ==
    IF a = 0 \/ b = 0 THEN 0
    ELSE IF a = -1 THEN b
    ELSE IF b = -1 THEN a
    ELSE (a % 2) * (b % 2) + 2 * BitAnd(a \div 2, b \div 2)

RECURSIVE BitOr(_, _)
BitOr(a, b) ==
    IF a = 0 THEN b
    ELSE IF b = 0 THEN a
    ELSE IF a = -1 \/ b = -1 THEN -1
    ELSE (IF a % 2 = 1 \/ b % 2 = 1 THEN 1 ELSE 0) + 2 * BitOr(a \div 2, b \div 2)

\* ------------------------------------------------------------------------
\* Values at run time: Python scalars, numpy scalars, pandas Series
\* ------------------------------------------------------------------------
PyFloat(f) == [t |-> "float", v |-> f]
NpAbs == [t |-> "ufunc", v |-> Frac(0, 1)]
Series(dtype, values, index) ==
    [t |-> "Series", dtype |-> dtype, values |-> values, index |-> index]

TypeError == Exc("TypeError", "unsupported operand type(s)", <<>>)
ValueErrorExc == Exc("ValueError", "Integers to negative integer powers are not allowed.", <<>>)
ZeroDivisionError == Exc("ZeroDivisionError", "division by zero", <<>>)
\* an operand combination whose numpy/pandas behaviour this model does not cover
Unmodelled == Exc("Unmodelled", "", <<>>)

Ok(val) == [exc |-> NoExc, val |-> val]
Raise(exc) == [exc |-> exc, val |-> PyNone]

IsSeries(x) == x.t = "Series"
IsNp(x) == x.t \in {"np.bool_", "np.int64", "np.float64"}
IsPy(x) == x.t \in {"bool", "int", "float"}
IsOpaque(x) == x.t \in {"NoneType", "ufunc"}

\* 0 boolean, 1 integer, 2 floating
Rank(x) ==
    CASE x.t \in {"bool", "np.bool_"} -> 0
      [] x.t \in {"int", "np.int64"} -> 1
      [] x.t \in {"float", "np.float64"} -> 2
      [] x.t = "Series" ->
            (IF x.dtype = "bool" THEN 0 ELSE IF x.dtype = "int64" THEN 1 ELSE 2)
      [] OTHER -> 3

PyOfRank(r, f) == [t |-> (IF r = 0 THEN "bool" ELSE IF r = 1 THEN "int" ELSE "float"), v |-> f]
NpOfRank(r, f) ==
    [t |-> (IF r = 0 THEN "np.bool_" ELSE IF r = 1 THEN "np.int64" ELSE "np.float64"),
     v |-> f]
DtypeOfRank(r) == IF r = 0 THEN "bool" ELSE IF r = 1 THEN "int64" ELSE "float64"

Max2(a, b) == IF a < b THEN b ELSE a
FBool(b) == Frac(IF b THEN 1 ELSE 0, 1)
FTruth(f) == f # Frac(0, 1)

\* element i of an operand, a scalar being broadcast
Elem(x, i) == IF IsSeries(x) THEN x.values[i] ELSE x.v
\* the Series among two operands of which at least one is a Series
Shape(l, r) == IF IsSeries(l) THEN l ELSE r
Aligned(l, r) == ~(IsSeries(l) /\ IsSeries(r)) \/ l.index = r.index

\* ---- the binary operations on one pair of numbers ----
FArith(op, a, b) ==
    CASE op = "Add" -> FAdd(a, b)
      [] op = "Sub" -> FSub(a, b)
      [] op = "Mult" -> FMul(a, b)
      [] op = "Div" -> FDiv(a, b)
      [] op = "Pow" ->
            (IF b[1] >= 0 THEN FPow(a, b[1]) ELSE FDiv(Frac(1, 1), FPow(a, -b[1])))

FCompare(op, a, b) ==
    CASE op = "Lt" -> FLt(a, b)
      [] op = "LtE" -> FLt(a, b) \/ FEq(a, b)
      [] op = "Gt" -> FLt(b, a)
      [] op = "GtE" -> FLt(b, a) \/ FEq(a, b)
      [] op = "Eq" -> FEq(a, b)
      [] op = "NotEq" -> ~FEq(a, b)

FBit(op, a, b) ==
    IF op = "And" THEN Frac(BitAnd(a[1], b[1]), 1) ELSE Frac(BitOr(a[1], b[1]), 1)

FApply(op, a, b) ==
    IF op \in {"Add", "Sub", "Mult", "Div", "Pow"} THEN FArith(op, a, b)
    ELSE IF op \in {"And", "Or"} THEN FBit(op, a, b)
    ELSE FBool(FCompare(op, a, b))

\* the result (of rank rk) of applying op elementwise to l and r
Lift2(l, r, rk, op) ==
    IF IsSeries(l) \/ IsSeries(r)
    THEN Ok(Series(DtypeOfRank(rk),
                   [i \in DOMAIN Shape(l, r).values |-> FApply(op, Elem(l, i), Elem(r, i))],
                   Shape(l, r).index))
    ELSE IF IsNp(l) \/ IsNp(r) THEN Ok(NpOfRank(rk, FApply(op, l.v, r.v)))
    ELSE Ok(PyOfRank(rk, FApply(op, l.v, r.v)))

\* ---- unary operators: ~x, +x, -x ----
FInvert(a) == Frac(-a[1] - 1, 1)
FNot(a) == FBool(~FTruth(a))

OpInvert(x) ==
    CASE x.t \in {"bool", "int"} -> Ok(PyInt(-x.v[1] - 1))
      [] x.t = "np.bool_" -> Ok(NpOfRank(0, FNot(x.v)))
      [] x.t = "np.int64" -> Ok(NpOfRank(1, FInvert(x.v)))
      [] x.t = "Series" /\ x.dtype = "bool" ->
            Ok(Series("bool", [i \in DOMAIN x.values |-> FNot(x.values[i])], x.index))
      [] x.t = "Series" /\ x.dtype = "int64" ->
            Ok(Series("int64", [i \in DOMAIN x.values |-> FInvert(x.values[i])], x.index))
      [] OTHER -> Raise(TypeError)

OpPos(x) ==
    CASE x.t \in {"bool", "int"} -> Ok(PyInt(x.v[1]))
      [] x.t \in {"float", "np.int64", "np.float64"} -> Ok(x)
      [] x.t = "Series" /\ x.dtype # "bool" -> Ok(x)
      [] IsOpaque(x) -> Raise(TypeError)
      [] OTHER -> Raise(Unmodelled)

OpNeg(x) ==
    CASE x.t \in {"bool", "int"} -> Ok(PyInt(-x.v[1]))
      [] x.t \in {"float", "np.int64", "np.float64"} -> Ok([x EXCEPT !.v = FNeg(x.v)])
      [] x.t = "Series" /\ x.dtype # "bool" ->
            Ok([x EXCEPT !.values = [i \in DOMAIN x.values |-> FNeg(x.values[i])]])
      [] OTHER -> Raise(TypeError)

\* ---- np.abs ----
NpAbsCall(x) ==
    CASE IsPy(x) -> Ok(NpOfRank(Rank(x), FAbs(x.v)))
      [] IsNp(x) -> Ok([x EXCEPT !.v = FAbs(x.v)])
      [] IsSeries(x) ->
            Ok([x EXCEPT !.values = [i \in DOMAIN x.values |-> FAbs(x.values[i])]])
      [] OTHER -> Raise(TypeError)

\* ---- binary arithmetic: + - * / ** ----
\* every exponent is a whole number (anything else leaves the fractions)
WholeExponent(r) ==
    IF IsSeries(r) THEN \A i \in DOMAIN r.values : FIsInt(r.values[i]) ELSE FIsInt(r.v)
SomeNegative(r) ==
    IF IsSeries(r) THEN \E i \in DOMAIN r.values : r.values[i][1] < 0 ELSE r.v[1] < 0

OpArith(op, l, r) ==
    LET python == ~IsSeries(l) /\ ~IsSeries(r) /\ ~IsNp(l) /\ ~IsNp(r)
        bothInt == Rank(l) <= 1 /\ Rank(r) <= 1
    IN  IF IsOpaque(l) \/ IsOpaque(r)
        THEN IF python THEN Raise(TypeError) ELSE Raise(Unmodelled)
        ELSE IF op = "Pow" /\ ~WholeExponent(r) THEN Raise(Unmodelled)
        ELSE IF python
        THEN IF op = "Div"
             THEN IF r.v[1] = 0 THEN Raise(ZeroDivisionError)
                  ELSE Ok(PyFloat(FApply(op, l.v, r.v)))
             ELSE IF op = "Pow" /\ r.v[1] < 0
             THEN IF l.v[1] = 0 THEN Raise(ZeroDivisionError)
                  ELSE Ok(PyFloat(FApply(op, l.v, r.v)))
             ELSE Ok(PyOfRank(Max2(1, Max2(Rank(l), Rank(r))), FApply(op, l.v, r.v)))
        ELSE IF Rank(l) = 0 \/ Rank(r) = 0 \/ ~Aligned(l, r) THEN Raise(Unmodelled)
        ELSE IF op = "Pow" /\ bothInt /\ SomeNegative(r) THEN Raise(ValueErrorExc)
        ELSE Lift2(l, r, IF op = "Div" THEN 2 ELSE Max2(Rank(l), Rank(r)), op)

\* ---- comparisons: < <= > >= == != ----
OpCompare(op, l, r) ==
    LET python == ~IsSeries(l) /\ ~IsSeries(r) /\ ~IsNp(l) /\ ~IsNp(r)
    IN  IF IsOpaque(l) \/ IsOpaque(r)
        THEN IF ~python THEN Raise(Unmodelled)
             ELSE IF op = "Eq" THEN Ok(PyBool(l.t = r.t))
             ELSE IF op = "NotEq" THEN Ok(PyBool(l.t # r.t))
             ELSE Raise(TypeError)
        ELSE IF ~Aligned(l, r) THEN Raise(Unmodelled)
        ELSE Lift2(l, r, 0, op)

\* ---- & and | ----
OpBit(op, l, r) ==
    LET python == ~IsSeries(l) /\ ~IsSeries(r) /\ ~IsNp(l) /\ ~IsNp(r)
    IN  IF python
        THEN IF Rank(l) <= 1 /\ Rank(r) <= 1
             THEN Ok(PyOfRank(Max2(Rank(l), Rank(r)), FApply(op, l.v, r.v)))
             ELSE Raise(TypeError)
        ELSE IF Rank(l) = 0 /\ Rank(r) = 0 /\ Aligned(l, r) THEN Lift2(l, r, 0, op)
        ELSE IF IsSeries(l) /\ IsSeries(r) /\ Rank(l) = 1 /\ Rank(r) = 1 /\ Aligned(l, r)
        THEN Lift2(l, r, 1, op)
        ELSE Raise(Unmodelled)

\* ------------------------------------------------------------------------
\* expr.py: _eval_node
\* ------------------------------------------------------------------------
\* A node of the tree is named by its path from the root: operand k of a
\* unary/binary/boolean operation or call is <<.., k>>; in a comparison the
\* left operand is 1 and comparator i is i + 1.  _eval_node returns
\* [exc, val, trace]: trace lists the nodes in the order _eval_node entered them.
Out(exc, val, trace) == [exc |-> exc, val |-> val, trace |-> trace]

RECURSIVE _eval_node(_, _, _)
RECURSIVE eval_values(_, _, _, _)
RECURSIVE eval_comparators(_, _, _, _, _, _)

\* a chain that keeps comparing against its first operand
next_left_stale(left, right) == left

\* left = right, at the end of each step of a comparison chain
next_left(left, right) == right

\* a fold that stops at values[0]
fold_values_first(op, out, rest) == [exc |-> NoExc, val |-> out, trace |-> <<>>]

\* out = values[0]; for v in values[1:]: out = out <op> v
RECURSIVE fold_values(_, _, _)
fold_values(op, out, rest) ==
    LET step(nxt) == IF nxt.exc # NoExc THEN nxt ELSE fold_values(op, nxt.val, Tail(rest))
    IN  IF rest = <<>> THEN Ok(out) ELSE step(OpBit(op, out, Head(rest)))

\* [_eval_node(v, env) for v in node.values], from operand k on
eval_values(values, env, path, k) ==
    LET cons(first, rest) ==
            IF first.exc # NoExc
            THEN [exc |-> first.exc, vals |-> <<>>, trace |-> first.trace]
            ELSE [exc |-> rest.exc,
                  vals |-> <<first.val>> \o rest.vals,
                  trace |-> first.trace \o rest.trace]
    IN  IF k > Len(values) THEN [exc |-> NoExc, vals |-> <<>>, trace |-> <<>>]
        ELSE cons(_eval_node(values[k], env, Append(path, k)),
                  eval_values(values, env, path, k + 1))

\* the loop over zip(node.ops, node.comparators), from pair i on
eval_comparators(node, env, path, i, left, out) ==
    LET \* the rest of the loop, after this pair
        after(right, rest) == Out(rest.exc, rest.val, right.trace \o rest.trace)
        \* out = cur if out is None else (out & cur); left = right
        step(right, cur, acc) ==
            IF right.exc # NoExc THEN Out(right.exc, PyNone, right.trace)
            ELSE IF cur.exc # NoExc THEN Out(cur.exc, PyNone, right.trace)
            ELSE IF acc.exc # NoExc THEN Out(acc.exc, PyNone, right.trace)
            ELSE after(right, eval_comparators(node, env, path, i + 1,
                                               next_left(left, right.val), acc.val))
        with_cur(right, cur) ==
            step(right, cur, IF i = 1 THEN cur ELSE OpBit("And", out, cur.val))
        \* cur = left <op> right
        with_right(right) ==
            with_cur(right,
                     IF node.ops[i].kind \in {"Lt", "LtE", "Gt", "GtE", "Eq", "NotEq"}
                     THEN OpCompare(node.ops[i].kind, left, right.val)
                     ELSE Raise(ExprError("Unsupported comparison operator: ",
                                          <<node.ops[i].kind>>)))
    IN  IF i > Len(node.ops) \/ i > Len(node.comparators) THEN Out(NoExc, out, <<>>)
        ELSE with_right(_eval_node(node.comparators[i], env, Append(path, i + 1)))

_eval_node(node, env, path) ==
    LET unsupported == Out(ExprError("Unsupported expression element: ", <<node.kind>>),
                           PyNone, <<path>>)
    IN
    CASE node.kind = "Constant" ->
            IF node.value.t \in {"int", "float", "bool", "NoneType"}
            THEN Out(NoExc, node.value, <<path>>)
            ELSE Out(ExprError("Only numeric/bool constants are allowed, got: ",
                               <<node.value.t>>), PyNone, <<path>>)
      [] node.kind = "Name" ->
            IF node.id \notin DOMAIN env
            THEN Out(ExprError("Unknown name: ", <<node.id>>), PyNone, <<path>>)
            ELSE Out(NoExc, env[node.id], <<path>>)
      [] node.kind = "UnaryOp" ->
            LET done(operand, res) ==
                    IF operand.exc # NoExc
                    THEN Out(operand.exc, PyNone, <<path>> \o operand.trace)
                    ELSE Out(res.exc, res.val, <<path>> \o operand.trace)
                unary(operand) ==
                    done(operand,
                         CASE node.op.kind = "Not" -> OpInvert(operand.val)
                           [] node.op.kind = "UAdd" -> OpPos(operand.val)
                           [] node.op.kind = "USub" -> OpNeg(operand.val)
                           [] OTHER -> Raise(unsupported.exc))
            IN unary(_eval_node(node.operand, env, Append(path, 1)))
      [] node.kind = "BinOp" ->
            LET done(left, right, res) ==
                    IF left.exc # NoExc THEN Out(left.exc, PyNone, <<path>> \o left.trace)
                    ELSE IF right.exc # NoExc
                    THEN Out(right.exc, PyNone, <<path>> \o left.trace \o right.trace)
                    ELSE Out(res.exc, res.val, <<path>> \o left.trace \o right.trace)
                binary(left, right) ==
                    done(left, right,
                         IF node.op.kind \in {"Add", "Sub", "Mult", "Div", "Pow"}
                         THEN OpArith(node.op.kind, left.val, right.val)
                         ELSE Raise(unsupported.exc))
            IN binary(_eval_node(node.left, env, Append(path, 1)),
                      _eval_node(node.right, env, Append(path, 2)))
      [] node.kind = "BoolOp" ->
            LET done(values, res) ==
                    IF values.exc # NoExc
                    THEN Out(values.exc, PyNone, <<path>> \o values.trace)
                    ELSE Out(res.exc, res.val, <<path>> \o values.trace)
                fold(values) ==
                    done(values,
                         IF node.op.kind \in {"And", "Or"}
                         THEN fold_values(node.op.kind, Head(values.vals), Tail(values.vals))
                         ELSE Raise(unsupported.exc))
            IN fold(eval_values(node.values, env, path, 1))
      [] node.kind = "Compare" ->
            LET done(left, rest) ==
                    IF left.exc # NoExc THEN Out(left.exc, PyNone, <<path>> \o left.trace)
                    ELSE Out(rest.exc, rest.val, <<path>> \o left.trace \o rest.trace)
                chain(left) ==
                    done(left, eval_comparators(node, env, path, 1, left.val, PyNone))
            IN chain(_eval_node(node.left, env, Append(path, 1)))
      [] node.kind = "Call" ->
            IF node.func.id \notin DOMAIN env
            THEN Out(ExprError("Unknown function: ", <<node.func.id>>), PyNone, <<path>>)
            ELSE LET done(arg, res) ==
                         IF arg.exc # NoExc THEN Out(arg.exc, PyNone, <<path>> \o arg.trace)
                         ELSE Out(res.exc, res.val, <<path>> \o arg.trace)
                     apply(arg) ==
                         done(arg,
                              IF env[node.func.id].t = "ufunc" THEN NpAbsCall(arg.val)
                              ELSE Raise(TypeError))
                 IN apply(_eval_node(node.args[1], env, Append(path, 1)))
      [] OTHER -> unsupported

\* ------------------------------------------------------------------------
\* Tables (pandas DataFrame): column names, dtypes, row labels, column data
\* ------------------------------------------------------------------------
DataFrame(columns, dtypes, index, data) ==
    [columns |-> columns, dtypes |-> dtypes, index |-> index, data |-> data]

\* df[c]
Column(df, c) == Series(df.dtypes[c], df.data[c], df.index)
\* len(df)
NRows(df) == Len(df.index)

\* the positions of a boolean mask that are True, in row order
RECURSIVE TruePositions(_, _)
TruePositions(values, i) ==
    IF i > Len(values) THEN <<>>
    ELSE (IF FTruth(values[i]) THEN <<i>> ELSE <<>>) \o TruePositions(values, i + 1)

Take(s, positions) == [k \in DOMAIN positions |-> s[positions[k]]]

\* a selection that ignores the mask
Loc_all(df, mask) == df

\* df.loc[mask].copy() for a boolean Series mask carrying df's index
Loc(df, mask) ==
    LET keep == TruePositions(mask.values, 1)
    IN DataFrame(df.columns, df.dtypes, Take(df.index, keep),
                 [c \in df.columns |-> Take(df.data[c], keep)])

\* Series.sum() and Series.mean() of a boolean Series
RECURSIVE CountTrue(_)
CountTrue(values) ==
    IF values = <<>> THEN 0
    ELSE (IF FTruth(Head(values)) THEN 1 ELSE 0) + CountTrue(Tail(values))

MaskSum(mask) == CountTrue(mask.values)
MaskMean(mask) == FNorm(CountTrue(mask.values), Len(mask.values))

\* ------------------------------------------------------------------------
\* expr.py: eval_expr.  order is the iteration order of the set compiled.names
\* ------------------------------------------------------------------------
NoMask == Series("bool", <<>>, <<>>)
EvalOut(exc, ret, trace, reads) ==
    [exc |-> exc, ret |-> ret, trace |-> trace, reads |-> reads]

\* pd.Series(result, index=df.index, dtype=bool) for a boolean Series result
AsMask(result, df) ==
    Series("bool", [i \in DOMAIN df.index |-> result.values[i]], df.index)

\* a broadcast that fills the mask with True whatever the scalar
Broadcast_true(result, df) ==
    Series("bool", [i \in DOMAIN df.index |-> FBool(TRUE)], df.index)

\* a broadcast that forgets the row count
Broadcast_once(result, df) == Series("bool", <<FBool(FTruth(result.v))>>, <<0>>)

\* pd.Series([bool(result)] * len(df), index=df.index, dtype=bool)
Broadcast(result, df) ==
    Series("bool", [i \in DOMAIN df.index |-> FBool(FTruth(result.v))], df.index)

\* an env whose columns repeat the value of the first row
Env_first_row(compiled, df) ==
    [c \in compiled.names \cup _ALLOWED_FUNCS |->
        IF c \in _ALLOWED_FUNCS THEN NpAbs
        ELSE Series(Column(df, c).dtype,
                    [i \in DOMAIN df.index |-> Column(df, c).values[1]], df.index)]

\* env: the referenced columns, then the allowed functions
Env(compiled, df) ==
    [c \in compiled.names \cup _ALLOWED_FUNCS |->
        IF c \in _ALLOWED_FUNCS THEN NpAbs ELSE Column(df, c)]

Present(df, c) == c \in df.columns

\* a missing-column check that stops at the first missing name
missing_columns_first(df, order) ==
    IF SelectSeq(order, LAMBDA c : ~Present(df, c)) = <<>> THEN <<>>
    ELSE <<Head(SelectSeq(order, LAMBDA c : ~Present(df, c)))>>

\* missing = [c for c in compiled.names if c not in df.columns]
missing_columns(df, order) == SelectSeq(order, LAMBDA c : ~Present(df, c))

\* a missing column reported as pandas would report df[c]
MissingColumnsError_keyerror(missing) == Exc("KeyError", "", missing)

MissingColumnsError(missing) ==
    ExprError("Expression references missing columns: ", missing)

\* a normalisation that coerces any vector to booleans
normalize_truthy(result, df) ==
    IF IsSeries(result)
    THEN [exc |-> NoExc,
          ret |-> Series("bool", [i \in DOMAIN df.index |-> FBool(FTruth(result.values[i]))],
                         df.index)]
    ELSE IF result.t \in {"bool", "np.bool_"}
    THEN [exc |-> NoExc, ret |-> Broadcast(result, df)]
    ELSE [exc |-> ExprError("Expression must evaluate to a boolean mask.", <<>>),
          ret |-> NoMask]

\* "Normalize to boolean Series": the end of eval_expr
normalize(result, df) ==
    IF IsSeries(result)
    THEN IF result.dtype # "bool"
         THEN [exc |-> ExprError("Expression must evaluate to a boolean mask (use comparisons like <, ==, etc.).", <<>>),
               ret |-> NoMask]
         ELSE [exc |-> NoExc, ret |-> AsMask(result, df)]
    ELSE IF result.t \in {"bool", "np.bool_"}
    THEN [exc |-> NoExc, ret |-> Broadcast(result, df)]
    ELSE [exc |-> ExprError("Expression must evaluate to a boolean mask.", <<>>),
          ret |-> NoMask]

eval_expr(compiled, df, order) ==
    LET done(result, normal) ==
            IF result.exc # NoExc
            THEN EvalOut(result.exc, NoMask, result.trace, compiled.names)
            ELSE EvalOut(normal.exc, normal.ret, result.trace, compiled.names)
        evaluate(result) == done(result, normalize(result.val, df))
        check(missing) ==
            IF missing # <<>>
            THEN EvalOut(MissingColumnsError(missing), NoMask, <<>>, {})
            ELSE evaluate(_eval_node(compiled.ast_tree.body, Env(compiled, df), <<>>))
    IN  check(missing_columns(df, order))

\* ------------------------------------------------------------------------
\* filters.py: filter_by_expr
\* ------------------------------------------------------------------------
NoTable == DataFrame({}, <<>>, <<>>, <<>>)
Summary(expr, n_total, n_pass, pass_rate) ==
    [expr |-> expr, N_total |-> n_total, N_pass |-> n_pass, pass_rate |-> pass_rate]
NoSummary == Summary(BadText, 0, 0, FNan)

\* a pass rate without the guard for an empty table
PassRate_unguarded(df, mask) == MaskMean(mask)

\* float(mask.mean()) if len(df) else 0.0
PassRate(df, mask) == IF NRows(df) # 0 THEN MaskMean(mask) ELSE Frac(0, 1)

\* a summary that counts the rows of the result, not of the input
make_summary_of_out(expr, df, mask) ==
    Summary(expr, NRows(Loc(df, mask)), MaskSum(mask), PassRate(df, mask))

\* summary = {"expr": .., "N_total": .., "N_pass": .., "pass_rate": ..}
make_summary(expr, df, mask) ==
    Summary(expr, NRows(df), MaskSum(mask), PassRate(df, mask))

filter_by_expr(df, expr, order) ==
    LET done(compiled, evaluated) ==
            IF compiled.exc # NoExc
            THEN [exc |-> compiled.exc, out |-> NoTable, summary |-> NoSummary,
                  mask |-> NoMask, trace |-> <<>>, reads |-> {}]
            ELSE IF evaluated.exc # NoExc
            THEN [exc |-> evaluated.exc, out |-> NoTable, summary |-> NoSummary,
                  mask |-> NoMask, trace |-> evaluated.trace, reads |-> evaluated.reads]
            ELSE [exc |-> NoExc, out |-> Loc(df, evaluated.ret),
                  summary |-> make_summary(expr, df, evaluated.ret),
                  mask |-> evaluated.ret, trace |-> evaluated.trace,
                  reads |-> evaluated.reads]
        run(compiled) == done(compiled, eval_expr(compiled.ret, df, order))
    IN  run(compile_expr(expr))

\* ------------------------------------------------------------------------
\* Inputs: tables
\* ------------------------------------------------------------------------
\* The rows a table is made of: (dem_h, h_te_best_fit, terrain_flg, is_water)
RowKinds ==
    {[dem_h |-> Frac(100, 1), h_te_best_fit |-> Frac(98, 1),
      terrain_flg |-> Frac(0, 1), is_water |-> FBool(FALSE)],
     [dem_h |-> Frac(100, 1), h_te_best_fit |-> Frac(97, 1),
      terrain_flg |-> Frac(1, 1), is_water |-> FBool(FALSE)],
     [dem_h |-> Frac(100, 1), h_te_best_fit |-> Frac(50, 1),
      terrain_flg |-> Frac(0, 1), is_water |-> FBool(TRUE)],
     [dem_h |-> Frac(50, 1), h_te_best_fit |-> Frac(98, 1),
      terrain_flg |-> Frac(1, 1), is_water |-> FBool(TRUE)]}

AllColumns == {"dem_h", "h_te_best_fit", "terrain_flg", "is_water"}
FewColumns == {"dem_h", "terrain_flg"}
Dtypes ==
    [dem_h |-> "float64", h_te_best_fit |-> "float64",
     terrain_flg |-> "int64", is_water |-> "bool"]

RowSeqs == UNION {[1..n -> RowKinds] : n \in 0..MaxRows}
\* fewer row kinds for the tables that vary the index or the columns
WaterRows == {r \in RowKinds : FTruth(r.is_water)}
WaterRowSeqs == UNION {[1..n -> WaterRows] : n \in 0..MaxRows}
RangeIndex(n) == [i \in 1..n |-> i - 1]
ReversedIndex(n) == [i \in 1..n |-> n - i]

MakeTable(columns, rows, index) ==
    DataFrame(columns, [c \in columns |-> Dtypes[c]], index,
              [c \in columns |-> [i \in DOMAIN rows |-> rows[i][c]]])

Tables ==
    {MakeTable(AllColumns, rows, RangeIndex(Len(rows))) : rows \in RowSeqs}
    \cup {MakeTable(AllColumns, rows, ReversedIndex(Len(rows))) : rows \in WaterRowSeqs}
    \cup {MakeTable(FewColumns, rows, RangeIndex(Len(rows))) : rows \in WaterRowSeqs}

\* ------------------------------------------------------------------------
\* Inputs: expression texts (each given as the tree ast.parse builds)
\* ------------------------------------------------------------------------
dem_h == Name("dem_h")
h_te_best_fit == Name("h_te_best_fit")
terrain_flg == Name("terrain_flg")
is_water == Name("is_water")
Abs(x) == Call(Name("abs"), <<x>>, <<>>)
Str == Constant(PyStr)
Ints == {Num(i) : i \in 0..MaxInt}
PosInts == {Num(i) : i \in 1..MaxInt}

Diff == BinOp(dem_h, "Sub", h_te_best_fit)
\* abs(dem_h - h_te_best_fit) <= 3
CloseToDem == Compare(Abs(Diff), <<"LtE">>, <<Num(3)>>)
\* the expression of test_filter_by_expr_basic, without its last conjunct
TestExpr == BoolOp("And", <<CloseToDem, Compare(terrain_flg, <<"Eq">>, <<Num(0)>>)>>)

CmpOps == {"Lt", "LtE", "Gt", "GtE", "Eq", "NotEq"}

\* x <op> k for a numeric column expression x and a literal k
Thresholds ==
    {Compare(x, <<op>>, <<k>>) :
        x \in {terrain_flg, Diff, Abs(Diff)}, op \in CmpOps, k \in {Num(0), Num(MaxInt)}}

\* a <op1> b <op2> c over literals
ChainOps == {<<"Lt", "Lt">>, <<"LtE", "NotEq">>}
LiteralChains ==
    {Compare(a, ops, <<b, c>>) : a \in PosInts, b \in PosInts, c \in PosInts, ops \in ChainOps}

\* a <op> b over literals
LiteralCompares ==
    {Compare(a, <<op>>, <<b>>) : a \in Ints, b \in {Num(1)}, op \in {"Lt", "Eq"}}

ColumnChains ==
    {Compare(terrain_flg, <<"Lt", "Lt">>, <<h_te_best_fit, dem_h>>),
     Compare(Num(0), <<"LtE", "Lt">>, <<Diff, Num(MaxInt)>>),
     Compare(Num(0), <<"LtE", "Lt", "LtE">>, <<terrain_flg, h_te_best_fit, dem_h>>),
     Compare(dem_h, <<"Gt", "NotEq">>, <<h_te_best_fit, dem_h>>),
     Compare(Abs(Num(1)), <<"Lt", "LtE">>, <<Num(2), terrain_flg>>)}

BoolPool ==
    {CloseToDem, Compare(terrain_flg, <<"Eq">>, <<Num(0)>>), is_water,
     Constant(PyTrue), Compare(Num(2), <<"Lt">>, <<Num(1)>>)}

BoolOps ==
    {BoolOp(op, <<p, q>>) : op \in {"And", "Or"}, p \in BoolPool, q \in BoolPool}
    \cup {BoolOp(op, <<CloseToDem, Compare(terrain_flg, <<"Eq">>, <<Num(0)>>), is_water>>) :
            op \in {"And", "Or"}}

Nots == {UnaryOp("Not", p) : p \in BoolPool}

\* expressions whose value is a number, not a boolean
Numeric ==
    {BinOp(a, op, b) : a \in {Num(MaxInt)}, op \in _ALLOWED_BINOPS,
                       b \in {Num(0), Num(2)}}
    \cup {BinOp(x, op, Num(2)) : x \in {dem_h, terrain_flg}, op \in _ALLOWED_BINOPS}
    \cup {BinOp(x, op, h_te_best_fit) : x \in {dem_h, terrain_flg},
                                        op \in _ALLOWED_BINOPS \ {"Pow"}}
    \cup Ints
    \cup {dem_h, terrain_flg, Diff, Abs(Diff), Abs(Num(MaxInt)), Abs(Constant(PyTrue)),
          UnaryOp("USub", dem_h), UnaryOp("UAdd", terrain_flg), UnaryOp("USub", Num(1)),
          UnaryOp("Not", terrain_flg), UnaryOp("Not", Num(0)),
          BinOp(Num(1), "Pow", UnaryOp("USub", Num(1))),
          BinOp(terrain_flg, "Pow", UnaryOp("USub", Num(1))),
          BoolOp("And", <<Num(1), Num(2)>>), BoolOp("Or", <<Num(1), Num(2)>>),
          BoolOp("And", <<terrain_flg, terrain_flg>>)}

\* references to columns no table has
MissingRefs ==
    {Compare(Name("foo"), <<"Gt">>, <<Num(1)>>),
     Compare(Name("missing_col"), <<"Gt">>, <<Num(0)>>),
     Compare(Name("foo"), <<"Lt">>, <<Name("bar")>>),
     Compare(BinOp(Name("foo"), "Add", dem_h), <<"Gt">>, <<Name("bar")>>),
     Compare(Name("foo"), <<"Lt", "Lt">>, <<Name("bar"), Name("baz")>>),
     BoolOp("Or", <<is_water, Compare(Name("foo"), <<"Gt">>, <<Num(1)>>)>>),
     BinOp(Name("foo"), "Sub", Name("bar")),
     Name("foo")}

\* None, text and the bare name abs as operands
Oddities ==
    {Constant(PyNone), Str, Name("abs"),
     Compare(Str, <<"Eq">>, <<Str>>),
     Compare(Num(1), <<"Eq">>, <<Constant(PyNone)>>),
     Compare(Constant(PyNone), <<"Lt">>, <<Num(1)>>),
     Compare(Name("abs"), <<"Gt">>, <<Num(1)>>),
     Compare(Name("abs"), <<"Eq">>, <<Name("abs")>>),
     Compare(dem_h, <<"Lt">>, <<Str>>),
     BoolOp("And", <<Constant(PyNone), Constant(PyTrue)>>),
     BoolOp("And", <<BinOp(Num(1), "Div", Num(2)), Constant(PyTrue)>>),
     BoolOp("Or", <<Constant(PyTrue), Compare(Num(1), <<"Lt">>, <<BinOp(Num(1), "Div", Num(0))>>)>>),
     UnaryOp("Not", Constant(PyNone)),
     UnaryOp("Not", BinOp(Num(1), "Div", Num(2))),
     UnaryOp("USub", Name("abs")),
     Abs(Name("abs")), Abs(Constant(PyNone)),
     Compare(Abs(UnaryOp("USub", Num(MaxInt))), <<"Eq">>, <<Num(MaxInt)>>),
     UnaryOp("Not", Compare(Abs(Num(1)), <<"Lt">>, <<Num(2)>>))}

\* trees that use syntax outside the allow-list
ImportOs == Call(Name("__import__"), <<Str>>, <<>>)
Disallowed ==
    {Call(Attribute(ImportOs, "system"), <<Str>>, <<>>),
     ImportOs,
     Compare(Call(Name("sqrt"), <<dem_h>>, <<>>), <<"Gt">>, <<Num(1)>>),
     Compare(Call(Name("dem_h"), <<Num(1)>>, <<>>), <<"Gt">>, <<Num(1)>>),
     Call(Name("eval"), <<Str>>, <<>>),
     Abs(Call(Name("max"), <<dem_h, h_te_best_fit>>, <<>>)),
     BoolOp("And", <<CloseToDem, Call(Name("bool"), <<terrain_flg>>, <<>>)>>),
     Compare(Call(Attribute(dem_h, "abs"), <<>>, <<>>), <<"Lt">>, <<Num(3)>>),
     Compare(Call(Attribute(Name("abs"), "__call__"), <<dem_h>>, <<>>), <<"Lt">>, <<Num(3)>>),
     Compare(Call(Abs(dem_h), <<Num(1)>>, <<>>), <<"Lt">>, <<Num(3)>>),
     Compare(Call(Subscript(Name("fns"), Num(0)), <<dem_h>>, <<>>), <<"Lt">>, <<Num(3)>>),
     Compare(Call(Name("abs"), <<>>, <<>>), <<"Lt">>, <<Num(3)>>),
     Compare(Call(Name("abs"), <<dem_h, h_te_best_fit>>, <<>>), <<"Lt">>, <<Num(3)>>),
     Compare(Call(Name("abs"), <<>>, <<Keyword("x", dem_h)>>), <<"Lt">>, <<Num(3)>>),
     Compare(Call(Name("abs"), <<dem_h>>, <<Keyword("out", dem_h)>>), <<"Lt">>, <<Num(3)>>),
     Compare(Call(Name("abs"), <<Starred(dem_h)>>, <<>>), <<"Lt">>, <<Num(3)>>),
     Compare(Call(Name("sqrt"), <<>>, <<Keyword("x", dem_h)>>), <<"Lt">>, <<Num(3)>>),
     Compare(BinOp(terrain_flg, "Mod", Num(2)), <<"Eq">>, <<Num(0)>>),
     Compare(BinOp(dem_h, "FloorDiv", Num(2)), <<"Eq">>, <<Num(0)>>),
     BinOp(is_water, "BitAnd", Compare(terrain_flg, <<"Eq">>, <<Num(0)>>)),
     UnaryOp("Invert", is_water),
     Compare(terrain_flg, <<"Is">>, <<Num(0)>>),
     Compare(terrain_flg, <<"Lt", "In">>, <<dem_h, h_te_best_fit>>),
     Compare(Attribute(dem_h, "values"), <<"Gt">>, <<Num(1)>>),
     Compare(Subscript(dem_h, Num(0)), <<"Gt">>, <<Num(1)>>),
     IfExp(is_water, Constant(PyTrue), Constant(PyFalse))}

Trees ==
    Thresholds \cup LiteralChains \cup LiteralCompares \cup ColumnChains
    \cup BoolPool \cup BoolOps \cup Nots \cup {TestExpr, Constant(PyFalse)}
    \cup Numeric \cup MissingRefs \cup Oddities \cup Disallowed

Exprs == {Text(tree) : tree \in Trees} \cup {BadText}

\* ------------------------------------------------------------------------
\* The state: the last call made, what it was given and what came of it
\* ------------------------------------------------------------------------
\* The orders in which the set compiled.names can be iterated. Only the order
\* of the names the table lacks reaches a result, so the names it has are
\* taken in one order, ahead of the others.
iter_orders(names, columns) ==
    LET present == CHOOSE p \in Perms(names \cap columns) : TRUE
    IN  {present \o m : m \in Perms(names \ columns)}

VARIABLES
    call,       \* "none", "compile_expr", "eval_expr" or "filter_by_expr"
    expr,       \* the expression text given to compile_expr / filter_by_expr
    df,         \* the table given to eval_expr / filter_by_expr
    compiled,   \* the CompiledExpr compile_expr last returned
    raised,     \* the exception the call raised, or NoExc
    mask,       \* the mask eval_expr returned
    out,        \* the table filter_by_expr returned
    summary,    \* the summary filter_by_expr returned
    trace,      \* the nodes _eval_node was entered for, in order
    reads,      \* the columns of df the call read
    store,      \* the column arrays behind the caller's table and the returned one
    out_at,     \* the arrays of store the returned table is made of, or "none"
    threads,    \* eval_expr calls in progress on one CompiledExpr, one per thread
    allow,      \* the module-level allow-lists of expr.py
    files,      \* the file system: path -> content
    status,     \* the exit code of the command, or "none"
    args,       \* the arguments of the tool call
    ret         \* what the tool call returned or raised

\* the state of the expression core, and the state of the tools around it
core == <<call, expr, df, compiled, raised, mask, out, summary, trace, reads, store, out_at>>
rest == <<threads, allow, files, status, args, ret>>
rest_but_threads == <<allow, files, status, args, ret>>
vars == <<core, rest>>

\* DataFrame.copy(): the arrays of the copy are new ones
copy_shared(source) == source
copy_target(source) == "out"

NoStore == [df |-> <<>>, out |-> <<>>]
\* what the caller writes into a table it was given back
Scribble == Frac(-1, 1)

RestInit ==
    /\ threads = <<>>
    /\ allow = <<>>
    /\ files = <<>>
    /\ status = "none"
    /\ args = <<>>
    /\ ret = <<>>

Init ==
    /\ call = "none"
    /\ expr = BadText
    /\ df = NoTable
    /\ compiled = NoCompiled
    /\ raised = NoExc
    /\ mask = NoMask
    /\ out = NoTable
    /\ summary = NoSummary
    /\ trace = <<>>
    /\ reads = {}
    /\ store = NoStore
    /\ out_at = "none"
    /\ RestInit

\* compiled = compile_expr(e)
CompileExpr ==
    /\ call = "none"
    /\ \E e \in Exprs :
        \E res \in {compile_expr(e)} :
            /\ call' = "compile_expr"
            /\ expr' = e
            /\ compiled' = res.ret
            /\ raised' = res.exc
            /\ df' = NoTable
            /\ mask' = NoMask
            /\ out' = NoTable
            /\ summary' = NoSummary
            /\ trace' = <<>>
            /\ reads' = {}
            /\ store' = NoStore
            /\ out_at' = "none"
            /\ UNCHANGED rest

\* mask = eval_expr(compiled, t), on the CompiledExpr just built
EvalExpr ==
    /\ call = "compile_expr"
    /\ raised = NoExc
    /\ \E t \in Tables : \E order \in iter_orders(compiled.names, t.columns) :
        \E res \in {eval_expr(compiled, t, order)} :
            /\ call' = "eval_expr"
            /\ expr' = compiled.expr
            /\ df' = t
            /\ raised' = res.exc
            /\ mask' = res.ret
            /\ trace' = res.trace
            /\ reads' = res.reads
            /\ out' = NoTable
            /\ summary' = NoSummary
            /\ store' = [df |-> t.data, out |-> <<>>]
            /\ out_at' = "none"
            /\ UNCHANGED <<compiled, rest>>

\* out, summary = filter_by_expr(t, e)
FilterByExpr ==
    /\ call = "none"
    /\ \E e \in Exprs :
        \E c \in {compile_expr(e).ret} :
            \E t \in Tables : \E order \in iter_orders(c.names, t.columns) :
                \E res \in {filter_by_expr(t, e, order)} :
                    /\ call' = "filter_by_expr"
                    /\ expr' = e
                    /\ df' = t
                    /\ compiled' = c
                    /\ raised' = res.exc
                    /\ mask' = res.mask
                    /\ out' = res.out
                    /\ summary' = res.summary
                    /\ trace' = res.trace
                    /\ reads' = res.reads
                    /\ store' = [df |-> t.data, out |-> res.out.data]
                    /\ out_at' = IF res.exc = NoExc THEN copy_target("df") ELSE "none"
                    /\ UNCHANGED rest

\* the caller overwrites an entry of the table filter_by_expr returned
ModifyOut ==
    /\ call = "filter_by_expr"
    /\ raised = NoExc
    /\ NRows(out) > 0
    /\ \E c \in out.columns :
          store' = [store EXCEPT ![out_at][c][1] = Scribble]
    /\ call' = "modify_out"
    /\ UNCHANGED <<expr, df, compiled, raised, mask, out, summary, trace, reads, out_at, rest>>

Next == CompileExpr \/ EvalExpr \/ FilterByExpr \/ ModifyOut

Spec == Init /\ [][Next]_vars

\* every operand combination the inputs produce is one the model covers
ModelCovers == raised.type # "Unmodelled"

\* ------------------------------------------------------------------------
\* Properties
\* ------------------------------------------------------------------------
\* every node of a tree, the tree's root included
RECURSIVE SubNodes(_)
SubNodes(n) ==
    {n} \cup UNION {SubNodes(iter_child_nodes(n)[i]) : i \in DOMAIN iter_child_nodes(n)}

Compiling == call \in {"compile_expr", "filter_by_expr"}
Evaluating == call \in {"eval_expr", "filter_by_expr"} /\ compiled # NoCompiled
NothingTouched == trace = <<>> /\ reads = {} /\ mask = NoMask /\ out = NoTable

NodeAllowListed(n) ==
    /\ n.kind \in {"Expression", "BoolOp", "BinOp", "UnaryOp", "Compare", "Call", "Name",
                   "Load", "Constant", "And", "Or", "Not", "Add", "Sub", "Mult", "Div",
                   "Pow", "UAdd", "USub", "Lt", "LtE", "Gt", "GtE", "Eq", "NotEq"}
    /\ n.kind = "BinOp" => n.op.kind \in {"Add", "Sub", "Mult", "Div", "Pow"}
    /\ n.kind = "UnaryOp" => n.op.kind \in {"UAdd", "USub", "Not"}
    /\ n.kind = "BoolOp" => n.op.kind \in {"And", "Or"}
    /\ n.kind = "Compare" =>
          \A i \in DOMAIN n.ops : n.ops[i].kind \in {"Lt", "LtE", "Gt", "GtE", "Eq", "NotEq"}
    /\ n.kind = "Call" => n.func.kind = "Name" /\ n.func.id = "abs"

CallsOtherThanAbs(tree) ==
    \E n \in SubNodes(tree) :
        n.kind = "Call" /\ ~(n.func.kind = "Name" /\ n.func.id = "abs")

\* C1: compile_expr either returns a CompiledExpr whose tree holds only
\* allow-listed node kinds, operators and calls of abs, or raises ExprError; a
\* text that calls anything but abs is rejected by compile_expr, and
\* filter_by_expr then raises before it evaluates a node or reads a column.
C1_DefaultDeny ==
    Compiling =>
        /\ compiled # NoCompiled =>
              /\ compiled.ast_tree = expr.tree
              /\ \A n \in SubNodes(compiled.ast_tree) : NodeAllowListed(n)
        /\ compiled = NoCompiled => raised.type = "ExprError" /\ NothingTouched
        /\ expr.parses /\ CallsOtherThanAbs(expr.tree) => compiled = NoCompiled

C1_Witness ==
    /\ call = "filter_by_expr"
    /\ expr = Text(Call(Attribute(ImportOs, "system"), <<Str>>, <<>>))
    /\ NRows(df) = MaxRows
    /\ raised.type = "ExprError"
    /\ reads = {}

WellFormedCall(n) ==
    /\ n.func.kind = "Name"
    /\ n.func.id \in {"abs"}
    /\ Len(n.args) = 1
    /\ n.args[1].kind # "Starred"
    /\ Len(n.keywords) = 0

\* C2: every Call node of a compiled tree has a plain name from the registry
\* (abs) as its target, exactly one positional argument and no keyword
\* argument; a text with any other call is rejected by compile_expr.
C2_CallShape ==
    Compiling =>
        /\ compiled # NoCompiled =>
              \A n \in SubNodes(compiled.ast_tree) : n.kind = "Call" => WellFormedCall(n)
        /\ (expr.parses /\ \E n \in SubNodes(expr.tree) : n.kind = "Call" /\ ~WellFormedCall(n))
              => compiled = NoCompiled /\ raised.type = "ExprError"

C2_Witness ==
    /\ call = "compile_expr"
    /\ expr = Text(Compare(Call(Name("abs"), <<dem_h, h_te_best_fit>>, <<>>),
                           <<"Lt">>, <<Num(3)>>))
    /\ compiled = NoCompiled
    /\ raised = ExprError("Function must take exactly 1 argument: ", <<"abs">>)

IsBoolMask(m) ==
    /\ m.t = "Series"
    /\ m.dtype = "bool"
    /\ \A i \in DOMAIN m.values : m.values[i] \in {FBool(TRUE), FBool(FALSE)}

\* C3: when eval_expr succeeds, what it returns is a boolean mask with one
\* entry per row of the table, indexed by the table's row index.
C3_MaskLength ==
    (Evaluating /\ raised = NoExc) =>
        /\ IsBoolMask(mask)
        /\ Len(mask.values) = NRows(df)
        /\ mask.index = df.index

C3_Witness ==
    /\ call = "eval_expr"
    /\ raised = NoExc
    /\ NRows(df) = MaxRows
    /\ df.index # RangeIndex(MaxRows)
    /\ compiled.names = {}
    /\ Len(mask.values) = MaxRows

\* the value _eval_node gives the whole expression on the table
TopResult == _eval_node(compiled.ast_tree.body, Env(compiled, df), <<>>)
ColumnsPresent == compiled.names \subseteq df.columns
IsBoolean(v) == IF IsSeries(v) THEN v.dtype = "bool" ELSE v.t \in {"bool", "np.bool_"}

\* C4: when the value of the whole expression is a vector whose dtype is not
\* bool, or a scalar that is not a boolean, eval_expr raises ExprError and
\* returns no mask; dem_h - h_te_best_fit always fails.
C4_NoTruthyCoercion ==
    /\ (Evaluating /\ ColumnsPresent /\ TopResult.exc = NoExc /\ ~IsBoolean(TopResult.val))
          => /\ raised.type = "ExprError"
             /\ mask = NoMask
             /\ out = NoTable
    /\ (Evaluating /\ expr = Text(Diff)) => raised.type = "ExprError" /\ mask = NoMask

C4_Witness ==
    /\ call = "eval_expr"
    /\ expr = Text(terrain_flg)
    /\ NRows(df) = MaxRows
    /\ \A i \in DOMAIN df.index : df.data["terrain_flg"][i] \in {Frac(0, 1), Frac(1, 1)}
    /\ raised.type = "ExprError"
    /\ mask = NoMask

\* C5: when a name of compiled.names is not a column of the table, eval_expr
\* raises an error that lists every missing name, each once, and it has
\* evaluated no node and read no column.
C5_MissingColumns ==
    (Evaluating /\ ~ColumnsPresent) =>
        /\ raised.type = "ExprError"
        /\ raised.msg = "Expression references missing columns: "
        /\ Range(raised.arg) = compiled.names \ df.columns
        /\ Len(raised.arg) = Cardinality(compiled.names \ df.columns)
        /\ trace = <<>>
        /\ reads = {}
        /\ mask = NoMask

C5_Witness ==
    /\ call = "eval_expr"
    /\ NRows(df) = MaxRows
    /\ "dem_h" \in compiled.names
    /\ Cardinality(compiled.names \ df.columns) = 2
    /\ Len(raised.arg) = 2

\* the operands of the comparison that is the whole expression, and their values
TopOperands == <<compiled.ast_tree.body.left>> \o compiled.ast_tree.body.comparators
OperandValue(j) == _eval_node(TopOperands[j], Env(compiled, df), <<j>>).val
TopIsComparison ==
    /\ Evaluating
    /\ ColumnsPresent
    /\ compiled.ast_tree.body.kind = "Compare"
    /\ \A j \in DOMAIN TopOperands :
          /\ _eval_node(TopOperands[j], Env(compiled, df), <<j>>).exc = NoExc
          /\ Rank(OperandValue(j)) <= 2
Occurrences(path) == {k \in DOMAIN trace : trace[k] = path}
AllMask(b) == \A i \in DOMAIN mask.values : mask.values[i] = FBool(b)
LiteralChain(a, b, c) == Text(Compare(Num(a), <<"Lt", "Lt">>, <<Num(b), Num(c)>>))

\* C6: a comparison chain e0 op1 e1 ... opk ek is, row by row, the conjunction
\* of e(j-1) opj e(j); every operand is evaluated exactly once, left to right;
\* 1 < 2 < 3 is all true, 3 < 2 < 1 and 1 < 3 < 2 are all false.
C6_ChainedComparison ==
    /\ TopIsComparison =>
          /\ raised = NoExc
          /\ \A i \in DOMAIN df.index :
                FTruth(mask.values[i]) <=>
                    \A j \in DOMAIN compiled.ast_tree.body.ops :
                        FCompare(compiled.ast_tree.body.ops[j].kind,
                                 Elem(OperandValue(j), i), Elem(OperandValue(j + 1), i))
          /\ \A j \in DOMAIN TopOperands : Cardinality(Occurrences(<<j>>)) = 1
          /\ \A j \in DOMAIN TopOperands : \A k \in DOMAIN TopOperands :
                j < k => \A a \in Occurrences(<<j>>) : \A b \in Occurrences(<<k>>) : a < b
    /\ (Evaluating /\ expr = LiteralChain(1, 2, 3)) => raised = NoExc /\ AllMask(TRUE)
    /\ (Evaluating /\ expr = LiteralChain(3, 2, 1)) => raised = NoExc /\ AllMask(FALSE)
    /\ (Evaluating /\ expr = LiteralChain(1, 3, 2)) => raised = NoExc /\ AllMask(FALSE)

C6_Witness ==
    /\ call = "eval_expr"
    /\ expr = LiteralChain(1, 3, 2)
    /\ NRows(df) = MaxRows
    /\ raised = NoExc
    /\ AllMask(FALSE)

Kept == {i \in DOMAIN mask.values : FTruth(mask.values[i])}
FracLe(a, b) == a[1] * b[2] <= b[1] * a[2]

\* C7: the summary of a successful filter_by_expr has N_total = the rows of
\* the input, N_pass = the true entries of the mask, 0 <= N_pass <= N_total,
\* pass_rate = N_pass / N_total (0.0 when N_total = 0), so within [0, 1].
C7_Summary ==
    (call = "filter_by_expr" /\ raised = NoExc) =>
        /\ summary.expr = expr
        /\ summary.N_total = NRows(df)
        /\ summary.N_pass = Cardinality(Kept)
        /\ 0 <= summary.N_pass /\ summary.N_pass <= summary.N_total
        /\ summary.pass_rate[2] > 0
        /\ summary.N_total > 0 =>
              summary.pass_rate[1] * summary.N_total = summary.N_pass * summary.pass_rate[2]
        /\ summary.N_total = 0 => summary.pass_rate = Frac(0, 1)
        /\ FracLe(Frac(0, 1), summary.pass_rate) /\ FracLe(summary.pass_rate, Frac(1, 1))

C7_Witness ==
    /\ call = "filter_by_expr"
    /\ raised = NoExc
    /\ expr = Text(TestExpr)
    /\ summary.N_pass = 1
    /\ summary.N_total = MaxRows
    /\ summary.pass_rate = FNorm(1, MaxRows)

\* the k-th row the mask keeps
KthKept(k) == CHOOSE i \in Kept : Cardinality({j \in Kept : j < i}) = k - 1
SpecExample ==
    /\ call = "filter_by_expr"
    /\ expr = Text(CloseToDem)
    /\ df.columns = AllColumns
    /\ df.data["dem_h"] = <<Frac(100, 1), Frac(100, 1)>>
    /\ df.data["h_te_best_fit"] = <<Frac(98, 1), Frac(50, 1)>>

\* C8: filter_by_expr returns exactly the rows whose mask entry is true, in
\* their original order, every column unchanged, so as many rows as N_pass;
\* dem_h = [100, 100], h_te_best_fit = [98, 50] keeps only the first row.
C8_SelectedRows ==
    /\ (call = "filter_by_expr" /\ raised = NoExc) =>
          /\ out.columns = df.columns
          /\ out.dtypes = df.dtypes
          /\ NRows(out) = Cardinality(Kept)
          /\ NRows(out) = summary.N_pass
          /\ \A k \in DOMAIN out.index :
                /\ out.index[k] = df.index[KthKept(k)]
                /\ \A c \in df.columns : out.data[c][k] = df.data[c][KthKept(k)]
          /\ \A c \in df.columns : Len(out.data[c]) = NRows(out)
    /\ SpecExample =>
          /\ raised = NoExc
          /\ mask.values = <<FBool(TRUE), FBool(FALSE)>>
          /\ out.index = <<df.index[1]>>
          /\ out.data["h_te_best_fit"] = <<Frac(98, 1)>>

C8_Witness == SpecExample /\ NRows(out) = 1 /\ summary.N_pass = 1

AnyOrder(e) == CHOOSE o \in Perms(compile_expr(e).ret.names) : TRUE
\* e yields a mask on some one-row table with these columns
ValidOver(e, columns) ==
    \E t \in Tables :
        /\ t.columns = columns
        /\ NRows(t) = 1
        /\ filter_by_expr(t, e, AnyOrder(e)).exc = NoExc

\* C9: on a table with no rows, an expression that is valid over the table's
\* columns gives a table with no rows and the summary 0, 0, 0.0; nothing is raised.
C9_ZeroRows ==
    (call = "filter_by_expr" /\ df.columns # {} /\ NRows(df) = 0
        /\ ValidOver(expr, df.columns)) =>
        /\ raised = NoExc
        /\ out.columns = df.columns
        /\ NRows(out) = 0
        /\ \A c \in df.columns : out.data[c] = <<>>
        /\ summary.N_total = 0
        /\ summary.N_pass = 0
        /\ summary.pass_rate = Frac(0, 1)

C9_Witness ==
    /\ call = "filter_by_expr"
    /\ expr = Text(TestExpr)
    /\ df.columns = AllColumns
    /\ NRows(df) = 0
    /\ raised = NoExc
    /\ summary.pass_rate = Frac(0, 1)

\* the four failure classes
Malformed == Compiling /\ ~expr.parses
DisallowedSyntax == Compiling /\ expr.parses /\ compiled = NoCompiled
MissingColumn == Evaluating /\ ~ColumnsPresent
NonBoolean ==
    Evaluating /\ ColumnsPresent /\ TopResult.exc = NoExc /\ ~IsBoolean(TopResult.val)

\* the kind of error each class raises, on one input of the class
OneRow == MakeTable(AllColumns, <<CHOOSE r \in RowKinds : TRUE>>, RangeIndex(1))
FooAboveOne == Text(Compare(Name("foo"), <<"Gt">>, <<Num(1)>>))
KindOfMalformed == compile_expr(BadText).exc.type
KindOfDisallowed == compile_expr(Text(ImportOs)).exc.type
KindOfMissing == filter_by_expr(OneRow, FooAboveOne, <<"foo">>).exc.type
KindOfNonBoolean == filter_by_expr(OneRow, Text(Diff), AnyOrder(Text(Diff))).exc.type

DisallowedMessages ==
    {"Disallowed syntax: ", "Disallowed operator: ", "Disallowed unary operator: ",
     "Disallowed boolean operator: ", "Disallowed comparison operator: ",
     "Only simple function calls like abs(x) are allowed.", "Function is not allowed: ",
     "Keyword arguments are not allowed in function calls.",
     "Function must take exactly 1 argument: "}
NonBooleanMessages ==
    {"Expression must evaluate to a boolean mask (use comparisons like <, ==, etc.).",
     "Expression must evaluate to a boolean mask."}

Called == call \in {"eval_expr", "filter_by_expr", "modify_out"}

\* C11: after eval_expr or filter_by_expr, whether it returned or raised, the
\* caller's table has the columns, rows and values it was given with, and it
\* still has them after the caller overwrites an entry of the returned table.
C11_TableUntouched ==
    Called =>
        /\ DOMAIN store.df = df.columns
        /\ \A c \in df.columns : store.df[c] = df.data[c]

C11_Witness ==
    /\ call = "modify_out"
    /\ NRows(out) = NRows(df)
    /\ NRows(df) = MaxRows
    /\ \E c \in out.columns : store.out[c][1] = Scribble /\ out.data[c][1] # Scribble
    /\ store.df = df.data

\* ------------------------------------------------------------------------
\* One CompiledExpr evaluated again and again, from several threads
\* ------------------------------------------------------------------------
MaxCalls == 2
Threads == {1, 2}

\* the module-level allow-lists of expr.py
AllowLists ==
    [funcs |-> _ALLOWED_FUNCS, nodes |-> _ALLOWED_NODES, binops |-> _ALLOWED_BINOPS,
     unaryops |-> _ALLOWED_UNARYOPS, boolops |-> _ALLOWED_BOOLOPS, cmpops |-> _ALLOWED_CMPOPS]

\* a thread that is not inside eval_expr: the locals of its call are unset
Idle(calls) ==
    [pc |-> "idle", calls |-> calls, df |-> NoTable, order |-> <<>>, env |-> <<>>,
     result |-> PyNone, exc |-> NoExc, mask |-> NoMask]

ReuseTrees ==
    {TestExpr, is_water, Diff, Constant(PyTrue),
     Compare(Name("foo"), <<"Gt">>, <<Num(1)>>),
     Compare(Constant(PyNone), <<"Lt">>, <<Num(1)>>)}
ReuseTables ==
    {MakeTable(AllColumns, rows, RangeIndex(MaxRows)) :
        rows \in [1..MaxRows -> {r \in RowKinds : r.terrain_flg = Frac(0, 1)}]}
    \cup {MakeTable(AllColumns, <<>>, <<>>)}
    \cup {MakeTable(FewColumns, <<r>>, RangeIndex(1)) : r \in WaterRows}

\* a CompiledExpr that narrows its names to the columns of the table it met
compiled_narrowed(c, t) == [c EXCEPT !.names = c.names \cap t.columns]

\* the CompiledExpr after eval_expr(c, t): a frozen dataclass, nothing assigned
compiled_after(c, t) == c

\* compiled = compile_expr(e), kept to be shared by the threads
ShareCompiled ==
    /\ call = "none"
    /\ \E tree \in ReuseTrees :
        /\ expr' = Text(tree)
        /\ compiled' = compile_expr(Text(tree)).ret
    /\ call' = "reuse"
    /\ threads' = [th \in Threads |-> Idle(0)]
    /\ allow' = AllowLists
    /\ UNCHANGED <<df, raised, mask, out, summary, trace, reads, store, out_at,
                   files, status, args, ret>>

\* a thread calls eval_expr(compiled, t)
Begin(th) ==
    /\ call = "reuse"
    /\ threads[th].pc \in {"idle", "done"}
    /\ threads[th].calls < MaxCalls
    /\ \E t \in ReuseTables : \E order \in iter_orders(compiled.names, t.columns) :
        threads' = [threads EXCEPT ![th] =
                        [Idle(threads[th].calls + 1) EXCEPT
                            !.pc = "missing", !.df = t, !.order = order]]
    /\ UNCHANGED <<core, allow, files, status, args, ret>>

\* missing = [c for c in compiled.names if c not in df.columns]; raise if any
CheckMissing(th) ==
    /\ call = "reuse"
    /\ threads[th].pc = "missing"
    /\ \E missing \in {missing_columns(threads[th].df, threads[th].order)} :
        IF missing # <<>>
        THEN /\ threads' = [threads EXCEPT ![th].pc = "done",
                                           ![th].exc = MissingColumnsError(missing)]
             /\ compiled' = compiled_after(compiled, threads[th].df)
        ELSE /\ threads' = [threads EXCEPT ![th].pc = "env"]
             /\ UNCHANGED compiled
    /\ UNCHANGED <<call, expr, df, raised, mask, out, summary, trace, reads, store, out_at,
                   rest_but_threads>>

\* env = {c: df[c] for c in compiled.names}, then the allowed functions
BuildEnv(th) ==
    /\ call = "reuse"
    /\ threads[th].pc = "env"
    /\ threads' = [threads EXCEPT ![th].pc = "eval",
                                  ![th].env = Env(compiled, threads[th].df)]
    /\ UNCHANGED <<core, rest_but_threads>>

\* result = _eval_node(compiled.ast_tree.body, env)
EvalNode(th) ==
    /\ call = "reuse"
    /\ threads[th].pc = "eval"
    /\ \E res \in {_eval_node(compiled.ast_tree.body, threads[th].env, <<>>)} :
        IF res.exc # NoExc
        THEN /\ threads' = [threads EXCEPT ![th].pc = "done", ![th].exc = res.exc]
             /\ compiled' = compiled_after(compiled, threads[th].df)
        ELSE /\ threads' = [threads EXCEPT ![th].pc = "normalize", ![th].result = res.val]
             /\ UNCHANGED compiled
    /\ UNCHANGED <<call, expr, df, raised, mask, out, summary, trace, reads, store, out_at,
                   rest_but_threads>>

\* the result normalised to a boolean mask, and returned
Normalize(th) ==
    /\ call = "reuse"
    /\ threads[th].pc = "normalize"
    /\ \E res \in {normalize(threads[th].result, threads[th].df)} :
        threads' = [threads EXCEPT ![th].pc = "done", ![th].exc = res.exc,
                                   ![th].mask = res.ret]
    /\ compiled' = compiled_after(compiled, threads[th].df)
    /\ UNCHANGED <<call, expr, df, raised, mask, out, summary, trace, reads, store, out_at,
                   rest_but_threads>>

NextReuse ==
    \/ ShareCompiled
    \/ \E th \in Threads :
          Begin(th) \/ CheckMissing(th) \/ BuildEnv(th) \/ EvalNode(th) \/ Normalize(th)

SpecReuse == Init /\ [][NextReuse]_vars

\* what compile_expr followed by eval_expr gives on the table of thread th alone
Fresh(th) == eval_expr(compile_expr(expr).ret, threads[th].df, threads[th].order)

\* C12: however the eval_expr calls of the threads on one CompiledExpr
\* interleave and repeat, each finished call has the mask or the error that a
\* fresh compile_expr and eval_expr on its table alone gives, and the
\* CompiledExpr and the module-level allow-lists are as they were.
C12_Reusable ==
    call = "reuse" =>
        /\ compiled = compile_expr(expr).ret
        /\ allow = AllowLists
        /\ \A th \in Threads :
              threads[th].pc = "done" =>
                  /\ threads[th].exc = Fresh(th).exc
                  /\ threads[th].mask = Fresh(th).ret

C12_Witness ==
    /\ call = "reuse"
    /\ expr = Text(TestExpr)
    /\ threads[1].pc = "done" /\ threads[1].calls = MaxCalls
    /\ threads[1].exc = NoExc /\ \E i \in DOMAIN threads[1].mask.values :
                                      FTruth(threads[1].mask.values[i])
    /\ threads[2].pc = "eval" /\ threads[2].calls = 1
    /\ threads[2].df # threads[1].df
    /\ threads[1].exc = Fresh(1).exc

\* ------------------------------------------------------------------------
\* io.py and cli.py: tables in CSV files, and the filter command
\* ------------------------------------------------------------------------
\* pathlib.Path: the directories, the stem and the suffix of a path
Path(dir, stem, suffix) == [dir |-> dir, stem |-> stem, suffix |-> suffix]
\* the path of a directory
Dir(dir) == Path(dir, "", "")
Directory(writable) == [kind |-> "dir", writable |-> writable]
Garbage == [kind |-> "garbage"]

\* f with path p bound to content v
Bind(f, p, v) == [q \in DOMAIN f \cup {p} |-> IF q = p THEN v ELSE f[q]]

\* df.to_csv(p, index=False): the header and the columns; the row labels are dropped
to_csv(frame) ==
    [kind |-> "csv", columns |-> frame.columns, dtypes |-> frame.dtypes,
     nrows |-> NRows(frame), data |-> frame.data]

\* pd.read_csv(p): a fresh range index; a column without values is read as object
read_csv(content) ==
    IF content.kind # "csv"
    THEN [exc |-> Exc("ParserError", "Error tokenizing data", <<>>), ret |-> NoTable]
    ELSE [exc |-> NoExc,
          ret |-> DataFrame(content.columns,
                            [c \in content.columns |->
                                IF content.nrows = 0 THEN "object" ELSE content.dtypes[c]],
                            RangeIndex(content.nrows), content.data)]

\* read_table(path)
read_table(fs, path) ==
    IF path \notin DOMAIN fs
    THEN [exc |-> Exc("FileNotFoundError", "Input file not found: ", <<path>>),
          ret |-> NoTable]
    ELSE IF path.suffix # ".csv"
    THEN [exc |-> Exc("ValueError", "Unsupported input format: ", <<path.suffix>>),
          ret |-> NoTable]
    ELSE read_csv(fs[path])

\* write_table(df, path): [exc |-> what it raises, files |-> the files afterwards]
write_table(fs, frame, path) ==
    LET made == IF path.dir = <<>> \/ Dir(path.dir) \in DOMAIN fs THEN fs
                ELSE Bind(fs, Dir(path.dir), Directory(TRUE))
    IN  IF path.suffix # ".csv"
        THEN [exc |-> Exc("ValueError", "Unsupported output format: ", <<path.suffix>>),
              files |-> made]
        ELSE IF path.dir # <<>> /\ ~made[Dir(path.dir)].writable
        THEN [exc |-> Exc("PermissionError", "Permission denied: ", <<path>>),
              files |-> made]
        ELSE [exc |-> NoExc, files |-> Bind(made, path, to_csv(frame))]

\* the table with its object columns given the dtypes of their names
Typed(frame) ==
    [frame EXCEPT !.dtypes = [c \in frame.columns |->
                                IF c \in DOMAIN Dtypes THEN Dtypes[c] ELSE frame.dtypes[c]]]

\* What filter_by_expr(df, expr) can do. On the object columns of a table read
\* without rows the operators either act as on the typed empty columns or raise.
filter_outcomes(frame, text, order) ==
    LET typed == filter_by_expr(Typed(frame), text, order)
        failed == [typed EXCEPT !.exc = TypeError, !.out = NoTable,
                                !.summary = NoSummary, !.mask = NoMask]
    IN  IF typed.trace # <<>> /\ \E c \in frame.columns : frame.dtypes[c] = "object"
        THEN {typed, failed}
        ELSE {typed}

\* an except clause that lets the command succeed on an expression error
handler_lenient(exc) ==
    IF exc.type = "ExprError" THEN [status |-> 0, stderr |-> "expression error"]
    ELSE [status |-> 2, stderr |-> "filter error"]

\* the except clauses of cmd_filter
handler(exc) ==
    IF exc.type = "FileNotFoundError" THEN [status |-> 2, stderr |-> "filter error"]
    ELSE IF exc.type = "ExprError" THEN [status |-> 2, stderr |-> "expression error"]
    ELSE IF exc.type \notin {"KeyboardInterrupt", "SystemExit", "GeneratorExit"}
    THEN [status |-> 2, stderr |-> "filter error"]
    ELSE [status |-> "raised", stderr |-> ""]

\* f"{x:.3f}": x in thousandths, rounded
Format3f(x) == (2 * 1000 * x[1] + x[2]) \div (2 * x[2])

\* cmd_filter(args) on the files fs, where filter_by_expr does `filtered`
cmd_filter(fs, a, filtered) ==
    LET failure(stage, exc, fs2) ==
            [status |-> handler(exc).status, stderr |-> handler(exc).stderr,
             stage |-> stage, exc |-> exc, files |-> fs2, out |-> NoTable, stdout |-> <<>>]
        written(w) ==
            IF w.exc # NoExc THEN failure("write", w.exc, w.files)
            ELSE [status |-> 0, stderr |-> "", stage |-> "done", exc |-> NoExc,
                  files |-> w.files, out |-> filtered.out,
                  stdout |-> IF a.summary
                             THEN <<[N_total |-> filtered.summary.N_total,
                                     N_pass |-> filtered.summary.N_pass,
                                     pass_rate |-> Format3f(filtered.summary.pass_rate)]>>
                             ELSE <<>>]
        read(r) ==
            IF r.exc # NoExc THEN failure("read", r.exc, fs)
            ELSE IF filtered.exc # NoExc THEN failure("filter", filtered.exc, fs)
            ELSE written(write_table(fs, filtered.out, a.output))
    IN  read(read_table(fs, a.input))

\* the tables, files and arguments the command is run on
CliRows == {r \in RowKinds : r.terrain_flg = Frac(0, 1)}
CliTables ==
    {MakeTable(AllColumns, rows, RangeIndex(Len(rows))) :
        rows \in UNION {[1..n -> CliRows] : n \in 0..MaxRows}}
CliTrees ==
    {TestExpr, Diff, Compare(Name("foo"), <<"Gt">>, <<Num(1)>>), ImportOs,
     Compare(Constant(PyNone), <<"Lt">>, <<Num(1)>>)}
CliExprs == {Text(tree) : tree \in CliTrees} \cup {BadText}
InCsv == Path(<<>>, "in", ".csv")
OutCsv == Path(<<>>, "out", ".csv")
InputPaths == {InCsv, Path(<<>>, "in", ".txt"), Path(<<>>, "bad", ".csv"),
               Path(<<>>, "absent", ".csv")}
OutputPaths == {OutCsv, Path(<<"new">>, "out", ".csv"), Path(<<>>, "out", ".txt"),
                Path(<<"locked">>, "out", ".csv"), InCsv}
\* the files before the command: the table in in.csv and in.txt, an earlier out.csv
FilesWith(t) ==
    [p \in {InCsv, Path(<<>>, "in", ".txt"), Path(<<>>, "bad", ".csv"), OutCsv,
            Dir(<<"locked">>)} |->
        IF p = Dir(<<"locked">>) THEN Directory(FALSE)
        ELSE IF p.stem = "in" THEN to_csv(t)
        ELSE Garbage]

\* the filter command, run on one set of files
CmdFilter ==
    /\ call = "none"
    /\ \E t \in CliTables, input \in InputPaths, output \in OutputPaths,
          e \in CliExprs, flag \in BOOLEAN :
        \E a \in {[input |-> input, output |-> output, expr |-> e, summary |-> flag,
                   files |-> FilesWith(t)]} :
          \E r \in {read_table(a.files, a.input).ret} :
            \E order \in iter_orders(compile_expr(e).ret.names, r.columns) :
              \E filtered \in filter_outcomes(r, e, order) :
                \E res \in {cmd_filter(a.files, a, filtered)} :
                    /\ args' = a
                    /\ ret' = res
                    /\ files' = res.files
                    /\ status' = res.status
    /\ call' = "cmd_filter"
    /\ UNCHANGED <<expr, df, compiled, raised, mask, out, summary, trace, reads, store,
                   out_at, threads, allow>>

NextCli == CmdFilter

SpecCli == Init /\ [][NextCli]_vars

\* what each step of the command does on the arguments given
ReadOf == read_table(args.files, args.input)
Compiles == compile_expr(args.expr).exc = NoExc

\* C13: the filter command returns 0 only when reading, filtering and writing
\* all succeeded, and 2 on every failure; when compiling or evaluating the
\* expression fails, no file is written or changed.
C13_FilterExit ==
    call = "cmd_filter" =>
        /\ status \in {0, 2}
        /\ status = 0 <=> ret.exc = NoExc
        /\ status = 0 =>
              /\ ReadOf.exc = NoExc
              /\ Compiles
              /\ args.output \in DOMAIN files
              /\ files[args.output] = to_csv(ret.out)
              /\ ret.out.columns = ReadOf.ret.columns
        /\ (ReadOf.exc # NoExc \/ ~Compiles) => status = 2
        /\ args.output.suffix # ".csv" => status = 2
        /\ ret.stage \in {"read", "filter"} => files = args.files
        /\ (ReadOf.exc = NoExc /\ ~Compiles) => ret.stage = "filter" /\ files = args.files

C13_Witness ==
    /\ call = "cmd_filter"
    /\ status = 2
    /\ ret.stage = "filter"
    /\ ret.exc.type = "ExprError"
    /\ args.output = OutCsv
    /\ files[OutCsv] = Garbage
    /\ ReadOf.ret.index # <<>>

\* ------------------------------------------------------------------------
\* Literals, names and broadcasting
\* ------------------------------------------------------------------------
Literals(tree) == {n \in SubNodes(tree) : n.kind = "Constant"}
NumberOrBool(value) == value.t \in {"int", "float", "bool"}

\* C14: every literal of a CompiledExpr is a number or a boolean; compile_expr
\* rejects an expression with any other literal (a string, None) at compile
\* time instead of leaving the decision to evaluation.
C14_LiteralsChecked ==
    (Compiling /\ compiled # NoCompiled) =>
        \A n \in Literals(compiled.ast_tree) : NumberOrBool(n.value)

\* the identifiers that occur as column references: Name nodes that are not
\* the func of a Call
RECURSIVE ColumnRefs(_)
ColumnRefs(n) ==
    IF n.kind = "Name" THEN {n.id}
    ELSE IF n.kind = "Call"
    THEN UNION ({ColumnRefs(n.args[i]) : i \in DOMAIN n.args}
                \cup {ColumnRefs(n.keywords[i]) : i \in DOMAIN n.keywords})
    ELSE UNION {ColumnRefs(iter_child_nodes(n)[i]) : i \in DOMAIN iter_child_nodes(n)}

\* C15: for every expression that compiles, compiled.names is exactly the set
\* of identifiers that occur in the tree as column references, also when such
\* an identifier is spelled like a registry function name.
C15_NamesAreColumnRefs ==
    (Compiling /\ compiled # NoCompiled) =>
        compiled.names = ColumnRefs(compiled.ast_tree)

ScalarBoolean(v) == ~IsSeries(v) /\ v.t \in {"bool", "np.bool_"}

\* C16: when the value of the whole expression is a scalar boolean b, eval_expr
\* returns a mask of exactly N copies of b, N being the table's row count.
C16_ScalarBroadcast ==
    (Evaluating /\ ColumnsPresent /\ TopResult.exc = NoExc /\ ScalarBoolean(TopResult.val)) =>
        /\ raised = NoExc
        /\ Len(mask.values) = NRows(df)
        /\ \A i \in DOMAIN mask.values :
              mask.values[i] = FBool(TopResult.val.v # Frac(0, 1))

C16_Witness ==
    /\ call = "eval_expr"
    /\ NRows(df) = MaxRows
    /\ ScalarBoolean(TopResult.val)
    /\ TopResult.val.v = Frac(0, 1)
    /\ raised = NoExc
    /\ mask.values = [i \in 1..MaxRows |-> FBool(FALSE)]

\* ------------------------------------------------------------------------
\* beams.py and pipeline.py: the strong-beam stage and run_pipeline
\* ------------------------------------------------------------------------
\* an optional argument: None, or a value
None == [some |-> FALSE]
Some(v) == [some |-> TRUE, value |-> v]

\* A file name is the sequence of its parts, the extension last:
\* <<"ATL08_", "A", "_Rule8_full", ".csv">> is ATL08_A_Rule8_full.csv
Extensions == {".csv", ".h5"}
RuleSuffixes ==
    <<"_Rule8_full", "_Rule7_full", "_Rule6_full", "_Rule5_full", "_Rule4_full",
      "_Rule3_full", "_Rule2_full", "_Rule1_full", "_raw_allpoints">>

\* Path(name).stem
Stem(name) ==
    IF name # <<>> /\ name[Len(name)] \in Extensions
    THEN SubSeq(name, 1, Len(name) - 1) ELSE name

\* the loop of _norm_src_name: each suffix is tried once, in list order
RECURSIVE strip_suffixes(_, _)
strip_suffixes(base, suffixes) ==
    IF suffixes = <<>> THEN base
    ELSE strip_suffixes(IF base # <<>> /\ base[Len(base)] = Head(suffixes)
                        THEN SubSeq(base, 1, Len(base) - 1) ELSE base,
                        Tail(suffixes))

_norm_src_name(src) == strip_suffixes(Stem(src), RuleSuffixes)

\* the left beams whatever sc_orient is
get_strong_beams_left(sc_orient) == <<"gt1l", "gt2l", "gt3l">>

get_strong_beams(sc_orient) ==
    IF sc_orient = 0 THEN <<"gt1l", "gt2l", "gt3l">>
    ELSE IF sc_orient = 1 THEN <<"gt1r", "gt2r", "gt3r">>
    ELSE <<>>

\* a folder: whether it exists, and its files, each with the sc_orient it holds
Folder(exists, h5) == [exists |-> exists, h5 |-> h5]
H5(name, sc_orient) == [name |-> name, sc_orient |-> sc_orient]

\* folder.glob("ATL08_*.h5")
GlobAtl08(folder) ==
    {f \in folder.h5 : Len(f.name) >= 2 /\ Head(f.name) = "ATL08_"
                       /\ f.name[Len(f.name)] = ".h5"}

build_strong_beam_map(folder) ==
    [key \in {Stem(f.name) : f \in GlobAtl08(folder)} |->
        get_strong_beams((CHOOSE f \in GlobAtl08(folder) : Stem(f.name) = key).sc_orient)]

\* is_strong_row of apply_strong_beams, on row i
is_strong_row(frame, i, strong_map) ==
    LET strong_beams(key) == IF key \in DOMAIN strong_map THEN strong_map[key] ELSE <<>>
    IN  frame.data["beam"][i] \in Range(strong_beams(_norm_src_name(frame.data["source_file"][i])))

NeededCols == <<"beam", "source_file">>
StageOut(exc, result, stage_summary) == [exc |-> exc, out |-> result, summary |-> stage_summary]
BeamSummary(n_total, n_pass, pass_rate) ==
    [N_total |-> n_total, N_pass |-> n_pass, pass_rate |-> pass_rate]
NoBeamSummary == BeamSummary(0, 0, FNan)

\* apply_strong_beams: the outcomes.  On a table without rows df.apply(.., axis=1)
\* gives back a table, not a mask; whether selecting with it raises depends
\* on the pandas in use, so both outcomes are kept.
apply_strong_beams(frame, folder) ==
    LET missing == SelectSeq(NeededCols, LAMBDA c : c \notin frame.columns)
        selected(m) ==
            StageOut(NoExc, Loc(frame, m), BeamSummary(NRows(frame), MaskSum(m), PassRate(frame, m)))
    IN  IF missing # <<>>
        THEN {StageOut(Exc("ValueError", "apply_strong_beams: input missing columns: ", missing),
                       NoTable, NoBeamSummary)}
        ELSE IF ~folder.exists
        THEN {StageOut(Exc("FileNotFoundError", "apply_strong_beams: h5-folder not found: ", <<>>),
                       NoTable, NoBeamSummary)}
        ELSE IF NRows(frame) = 0
        THEN {StageOut(Exc("ValueError", "Cannot index with multidimensional key", <<>>),
                       NoTable, NoBeamSummary),
              StageOut(NoExc, frame, BeamSummary(0, 0, Frac(0, 1)))}
        ELSE {selected(Series("bool",
                              [i \in DOMAIN frame.index |->
                                  FBool(is_strong_row(frame, i, build_strong_beam_map(folder)))],
                              frame.index))}

RunSummary(n_in, n_after_beams, n_after_filter, beam_pass_rate, filter_pass_rate) ==
    [N_in |-> n_in, N_after_beams |-> n_after_beams, N_after_filter |-> n_after_filter,
     beam_pass_rate |-> beam_pass_rate, filter_pass_rate |-> filter_pass_rate]
NoRunSummary == RunSummary(0, 0, 0, FNan, FNan)

\* an expression stage that is given the table run_pipeline was called with
expr_stage_input_original(frame, df_b) == frame

\* the table the expression stage is given: filter_by_expr(df_b, expr)
expr_stage_input(frame, df_b) == df_b

\* 1.0 if n else 0.0
SkippedRate(n) == IF n # 0 THEN Frac(1, 1) ELSE Frac(0, 1)

\* run_pipeline: the outcomes; h5_folder and text are optional
run_pipeline(frame, h5_folder, text, order) ==
    LET filtered(res, n_b, beam_rate) ==
            IF res.exc.type = "ExprError"
            THEN {StageOut(ExprError("run_pipeline: invalid expr: ", <<res.exc>>),
                           NoTable, NoRunSummary)}
            ELSE IF res.exc # NoExc
            THEN {StageOut(res.exc, NoTable, NoRunSummary)}
            ELSE {StageOut(NoExc, res.out,
                           RunSummary(NRows(frame), n_b, NRows(res.out), beam_rate,
                                      res.summary.pass_rate))}
        expr_stage(df_b, n_b, beam_rate) ==
            IF text.some
            THEN filtered(filter_by_expr(expr_stage_input(frame, df_b), text.value, order),
                          n_b, beam_rate)
            ELSE {StageOut(NoExc, df_b,
                           RunSummary(NRows(frame), n_b, n_b, beam_rate, SkippedRate(n_b)))}
        after_beams(b) ==
            IF b.exc # NoExc THEN {StageOut(b.exc, NoTable, NoRunSummary)}
            ELSE expr_stage(b.out, NRows(b.out), b.summary.pass_rate)
    IN  IF h5_folder.some
        THEN UNION {after_beams(b) : b \in apply_strong_beams(frame, h5_folder.value)}
        ELSE expr_stage(frame, NRows(frame), SkippedRate(NRows(frame)))

\* Inputs
BeamNames == {"gt1l", "gt1r"}
SourceA == <<"ATL08_", "A", "_Rule8_full", ".csv">>
SourceB == <<"ATL08_", "B", "_raw_allpoints", "_Rule1_full", ".csv">>
SourceNames == {SourceA, SourceB}
PipelineRowKinds == {r \in RowKinds : r.dem_h = Frac(100, 1) /\ r.h_te_best_fit # Frac(50, 1)}
PipelineRows ==
    {[row |-> r, beam |-> b, source_file |-> f] :
        r \in PipelineRowKinds, b \in BeamNames, f \in SourceNames}
BeamColumns == AllColumns \cup {"beam", "source_file"}
BeamTable(rows) ==
    DataFrame(BeamColumns,
              [c \in BeamColumns |-> IF c \in AllColumns THEN Dtypes[c] ELSE "object"],
              RangeIndex(Len(rows)),
              [c \in BeamColumns |->
                  [i \in DOMAIN rows |-> IF c \in AllColumns THEN rows[i].row[c] ELSE rows[i][c]]])
PipelineTables ==
    {BeamTable(rows) : rows \in UNION {[1..n -> PipelineRows] : n \in 0..MaxRows}}
    \cup {MakeTable(AllColumns, rows, RangeIndex(Len(rows))) :
            rows \in UNION {[1..n -> PipelineRowKinds] : n \in 0..1}}
FolderLeft ==
    Folder(TRUE, {H5(<<"ATL08_", "A", ".h5">>, 0), H5(<<"ATL08_", "B", "_raw_allpoints", ".h5">>, 1)})
FolderMixed ==
    Folder(TRUE, {H5(<<"ATL08_", "A", ".h5">>, 1), H5(<<"ATL08_", "B", ".h5">>, 2),
                  H5(<<"ATL03_", "A", ".h5">>, 0), H5(<<"ATL08_", "B", "_raw_allpoints", ".csv">>, 0)})
H5Folders == {None, Some(Folder(FALSE, {})), Some(FolderLeft), Some(FolderMixed)}
PipelineExprs ==
    {None, Some(BadText), Some(Text(TestExpr)), Some(Text(Diff)), Some(Text(Constant(PyTrue))),
     Some(Text(Compare(Constant(PyNone), <<"Lt">>, <<Num(1)>>)))}

RunPipeline ==
    /\ call = "none"
    /\ \E t \in PipelineTables, folder \in H5Folders, text \in PipelineExprs :
        \E order \in iter_orders(IF text.some THEN compile_expr(text.value).ret.names ELSE {},
                                 t.columns) :
          \E res \in run_pipeline(t, folder, text, order) :
              /\ args' = [df |-> t, h5_folder |-> folder, expr |-> text]
              /\ ret' = res
    /\ call' = "run_pipeline"
    /\ UNCHANGED <<expr, df, compiled, raised, mask, out, summary, trace, reads, store,
                   out_at, threads, allow, files, status>>

NextPipeline == RunPipeline

SpecPipeline == Init /\ [][NextPipeline]_vars

Returned == call = "run_pipeline" /\ ret.exc = NoExc

\* the rows of the table given that are strong beams of the folder given
StrongRows ==
    {i \in DOMAIN args.df.index :
        is_strong_row(args.df, i, build_strong_beam_map(args.h5_folder.value))}

\* C17: run_pipeline applies the strong-beam stage only when h5_folder is
\* given and then the expression stage only when expr is given, each to what
\* the stage before it returned; the summary has N_in >= N_after_beams >=
\* N_after_filter, N_after_filter is the number of rows returned, and a
\* stage that is skipped passes every row and reports rate 1.0, or 0.0 when
\* it was given no rows.
C17_Pipeline ==
    /\ Returned =>
        /\ ret.summary.N_in = NRows(args.df)
        /\ ret.summary.N_in >= ret.summary.N_after_beams
        /\ ret.summary.N_after_beams >= ret.summary.N_after_filter
        /\ ret.summary.N_after_filter = NRows(ret.out)
        /\ Range(ret.out.index) \subseteq Range(args.df.index)
        /\ ~args.h5_folder.some =>
              /\ ret.summary.N_after_beams = ret.summary.N_in
              /\ ret.summary.beam_pass_rate =
                    (IF ret.summary.N_in = 0 THEN Frac(0, 1) ELSE Frac(1, 1))
        /\ args.h5_folder.some =>
              /\ ret.summary.N_after_beams = Cardinality(StrongRows)
              /\ \A k \in DOMAIN ret.out.index : (ret.out.index[k] + 1) \in StrongRows
        /\ ~args.expr.some =>
              /\ ret.summary.N_after_filter = ret.summary.N_after_beams
              /\ ret.summary.filter_pass_rate =
                    (IF ret.summary.N_after_beams = 0 THEN Frac(0, 1) ELSE Frac(1, 1))
        /\ args.expr = Some(Text(TestExpr)) =>
              \A k \in DOMAIN ret.out.index : ret.out.data["terrain_flg"][k] = Frac(0, 1)
        /\ args.expr = Some(Text(Constant(PyTrue))) =>
              ret.summary.N_after_filter = ret.summary.N_after_beams
    /\ (call = "run_pipeline" /\ ~args.h5_folder.some /\ ~args.expr.some) => ret.exc = NoExc
    /\ (call = "run_pipeline" /\ ~args.h5_folder.some /\ ret.exc # NoExc) =>
          ret.exc.type \in {"ExprError", "TypeError"}

C17_Witness ==
    /\ Returned
    /\ args.h5_folder = Some(FolderLeft)
    /\ args.expr = Some(Text(TestExpr))
    /\ ret.summary.N_in = MaxRows
    /\ ret.summary.N_after_beams = 1
    /\ ret.summary.N_after_filter = 0
    /\ ret.summary.beam_pass_rate = Frac(1, 2)

\* ------------------------------------------------------------------------
\* raster.py: sample_raster and filter_by_raster
\* ------------------------------------------------------------------------
\* A raster file: whether it exists, its nodata value (optional), and the
\* value src.sample gives at each point (lon, lat)
Raster(exists, nodata, cells) == [exists |-> exists, nodata |-> nodata, cells |-> cells]

SampleOut(exc, vals, n_nodata) == [exc |-> exc, vals |-> vals, N_nodata |-> n_nodata]

\* np.where(vals == nodata, np.nan, vals); nan equals nothing
replace_nodata(v, nodata) ==
    IF nodata.some /\ ~FIsNan(v) /\ ~FIsNan(nodata.value) /\ v = nodata.value THEN FNan ELSE v

sample_raster(frame, raster) ==
    LET missing == SelectSeq(<<"lon", "lat">>, LAMBDA c : c \notin frame.columns)
        sampled(vals) ==
            SampleOut(NoExc, vals, Cardinality({i \in DOMAIN vals : FIsNan(vals[i])}))
    IN  IF ~raster.exists
        THEN SampleOut(Exc("FileNotFoundError", "Raster not found: ", <<>>), <<>>, 0)
        ELSE IF missing # <<>>
        THEN SampleOut(Exc("ValueError", "Missing coordinate columns: ", missing), <<>>, 0)
        ELSE IF NRows(frame) = 0
        THEN SampleOut(NoExc, <<>>, 0)
        ELSE sampled([i \in DOMAIN frame.index |->
                        replace_nodata(raster.cells[<<frame.data["lon"][i], frame.data["lat"][i]>>],
                                       raster.nodata)])

\* set(float(x) for x in values)
FloatSet(values) == {values[i].v : i \in DOMAIN values}

\* a keep test that lets every sample through
keep_test_all(v, kv) == TRUE

\* False if np.isnan(v) else (float(v) in kv)
keep_test(v, kv) == IF FIsNan(v) THEN FALSE ELSE v \in kv

\* True if np.isnan(v) else (float(v) not in dv)
drop_test(v, dv) == IF FIsNan(v) THEN TRUE ELSE v \notin dv

RasterSummary(n_total, n_pass, pass_rate, n_nodata) ==
    [N_total |-> n_total, N_pass |-> n_pass, pass_rate |-> pass_rate, N_nodata |-> n_nodata]
NoRasterSummary == RasterSummary(0, 0, FNan, 0)

filter_by_raster(frame, raster, keep_values, drop_values, keep_nodata) ==
    LET row_mask(vals, i) ==
            /\ keep_nodata \/ ~FIsNan(vals[i])
            /\ keep_values.some => keep_test(vals[i], FloatSet(keep_values.value))
            /\ drop_values.some => drop_test(vals[i], FloatSet(drop_values.value))
        selected(m, n_nodata) ==
            StageOut(NoExc, Loc(frame, m),
                     RasterSummary(NRows(frame), MaskSum(m), MaskMean(m), n_nodata))
        masked(s) ==
            IF s.exc # NoExc THEN StageOut(s.exc, NoTable, NoRasterSummary)
            ELSE IF NRows(frame) = 0
            THEN StageOut(NoExc, frame, RasterSummary(0, 0, Frac(0, 1), 0))
            ELSE selected(Series("bool",
                                 [i \in DOMAIN frame.index |-> FBool(row_mask(s.vals, i))],
                                 frame.index),
                          s.N_nodata)
    IN  IF keep_values.some /\ drop_values.some
        THEN StageOut(Exc("ValueError", "Provide only one of keep_values or drop_values (not both).",
                          <<>>),
                      NoTable, NoRasterSummary)
        ELSE masked(sample_raster(frame, raster))

\* Inputs: the 2x2 raster of test_raster.py and variants of it
Cells == {<<Frac(1, 2), Frac(3, 2)>>, <<Frac(3, 2), Frac(3, 2)>>,
          <<Frac(1, 2), Frac(1, 2)>>, <<Frac(3, 2), Frac(1, 2)>>}
CellValues(a, b, c, d) ==
    [p \in Cells |-> IF p = <<Frac(1, 2), Frac(3, 2)>> THEN a
                     ELSE IF p = <<Frac(3, 2), Frac(3, 2)>> THEN b
                     ELSE IF p = <<Frac(1, 2), Frac(1, 2)>> THEN c ELSE d]
TinyTif == Raster(TRUE, Some(Frac(255, 1)),
                  CellValues(Frac(2, 1), Frac(1, 1), Frac(2, 1), Frac(0, 1)))
HolesTif == Raster(TRUE, Some(Frac(255, 1)),
                   CellValues(Frac(2, 1), Frac(255, 1), FNan, Frac(1, 1)))
PlainTif == Raster(TRUE, None, CellValues(Frac(2, 1), Frac(255, 1), Frac(2, 1), Frac(0, 1)))
Rasters == {TinyTif, HolesTif, PlainTif, Raster(FALSE, None, CellValues(FNan, FNan, FNan, FNan))}
PointRows == {[lon |-> p[1], lat |-> p[2], id |-> Frac(p[1][1] + 2 * p[2][1], 1)] : p \in Cells}
PointDtypes == [lon |-> "float64", lat |-> "float64", id |-> "int64"]
PointTable(columns, rows) ==
    DataFrame(columns, [c \in columns |-> PointDtypes[c]], RangeIndex(Len(rows)),
              [c \in columns |-> [i \in DOMAIN rows |-> rows[i][c]]])
RasterTables ==
    {PointTable({"lon", "lat", "id"}, rows) : rows \in UNION {[1..n -> PointRows] : n \in 0..MaxRows}}
    \cup {PointTable({"lon", "id"}, rows) : rows \in [1..1 -> PointRows]}
KeepLists == {None, Some(<<PyInt(2)>>), Some(<<PyInt(1), PyInt(2)>>), Some(<<PyInt(255)>>), Some(<<>>)}
DropLists == {None, Some(<<PyInt(2)>>), Some(<<PyInt(255)>>)}

FilterByRaster ==
    /\ call = "none"
    /\ \E t \in RasterTables, r \in Rasters, keep \in KeepLists, drop \in DropLists,
          keep_nodata \in BOOLEAN :
          /\ args' = [df |-> t, raster |-> r, keep_values |-> keep, drop_values |-> drop,
                      keep_nodata |-> keep_nodata]
          /\ ret' = filter_by_raster(t, r, keep, drop, keep_nodata)
    /\ call' = "filter_by_raster"
    /\ UNCHANGED <<expr, df, compiled, raised, mask, out, summary, trace, reads, store,
                   out_at, threads, allow, files, status>>

NextRaster == FilterByRaster

SpecRaster == Init /\ [][NextRaster]_vars

RasterFiltered == call = "filter_by_raster" /\ ret.exc = NoExc
\* what sample_raster returns for the table and the raster given
Sampled == sample_raster(args.df, args.raster).vals
\* the rows whose sample is a member of keep_values; nan is a member of nothing
KeptRows ==
    {i \in DOMAIN args.df.index :
        /\ ~FIsNan(Sampled[i])
        /\ \E k \in DOMAIN args.keep_values.value : args.keep_values.value[k].v = Sampled[i]}

C20_KeepNodata ==
    (RasterFiltered /\ args.keep_nodata) =>
        \A i \in DOMAIN args.df.index :
            FIsNan(Sampled[i]) => (i - 1) \in Range(ret.out.index)

\* ------------------------------------------------------------------------
\* vector_mask.py, beams.py and batch.py: the batch run over a folder
\* ------------------------------------------------------------------------
\* A polygon file: whether it exists, and the points within its polygons
Polygon(exists, inside) == [exists |-> exists, inside |-> inside]

RateOf(n_pass, n_total) == IF n_total # 0 THEN FNorm(n_pass, n_total) ELSE Frac(0, 1)

\* filter_by_polygon; clip_points is invert = FALSE, exclude_points invert = TRUE
filter_by_polygon(frame, polygon, invert) ==
    LET missing == SelectSeq(<<"lon", "lat">>, LAMBDA c : c \notin frame.columns)
        selected(m) ==
            StageOut(NoExc, Loc(frame, m),
                     BeamSummary(NRows(frame), MaskSum(m), RateOf(MaskSum(m), NRows(frame))))
        within(i) == <<frame.data["lon"][i], frame.data["lat"][i]>> \in polygon.inside
    IN  IF ~polygon.exists
        THEN StageOut(Exc("FileNotFoundError", "Polygon mask not found: ", <<>>),
                      NoTable, NoBeamSummary)
        ELSE IF missing # <<>>
        THEN StageOut(Exc("ValueError", "Missing coordinate columns: ", missing),
                      NoTable, NoBeamSummary)
        ELSE IF NRows(frame) = 0
        THEN StageOut(NoExc, frame, BeamSummary(0, 0, Frac(0, 1)))
        ELSE selected(Series("bool",
                             [i \in DOMAIN frame.index |-> FBool(within(i) # invert)],
                             frame.index))

\* beams.py: filter_strong_beams
filter_strong_beams(frame, strong_map) ==
    LET missing == SelectSeq(NeededCols, LAMBDA c : c \notin frame.columns)
        selected(m) ==
            StageOut(NoExc, Loc(frame, m),
                     BeamSummary(NRows(frame), MaskSum(m), RateOf(MaskSum(m), NRows(frame))))
    IN  IF missing # <<>>
        THEN StageOut(Exc("ValueError", "Strong-beam filtering requires columns: ", missing),
                      NoTable, NoBeamSummary)
        ELSE IF NRows(frame) = 0
        THEN StageOut(NoExc, frame, BeamSummary(0, 0, Frac(0, 1)))
        ELSE selected(Series("bool",
                             [i \in DOMAIN frame.index |->
                                 FBool(is_strong_row(frame, i, strong_map))],
                             frame.index))

\* The names of a folder's entries in the order Python compares them
Alphabet == <<"a", "b", "in", "notes", "out", "x", "y">>
NameRank(name) == CHOOSE i \in DOMAIN Alphabet : Alphabet[i] = name
IsDir(path) == path.stem = "" /\ path.suffix = ""
\* Path.parts, each as its rank
Parts(path) ==
    IF IsDir(path) THEN [i \in DOMAIN path.dir |-> NameRank(path.dir[i])]
    ELSE [i \in 1..(Len(path.dir) + 1) |->
            IF i <= Len(path.dir) THEN NameRank(path.dir[i]) ELSE NameRank(path.stem)]

RECURSIVE SeqLess(_, _)
SeqLess(a, b) ==
    IF a = <<>> THEN b # <<>>
    ELSE IF b = <<>> THEN FALSE
    ELSE IF Head(a) # Head(b) THEN Head(a) < Head(b)
    ELSE SeqLess(Tail(a), Tail(b))

PathLess(p, q) == SeqLess(Parts(p), Parts(q))

\* sorted(paths)
RECURSIVE sorted(_)
sorted(paths) ==
    IF paths = {} THEN <<>>
    ELSE LET least(m) == <<m>> \o sorted(paths \ {m})
         IN  least(CHOOSE m \in paths : \A q \in paths \ {m} : PathLess(m, q))

IsPrefix(a, b) == Len(a) <= Len(b) /\ SubSeq(b, 1, Len(a)) = a

\* in_dir.glob(pattern) for the patterns *.csv, */*.csv and *
glob(fs, in_dir, pattern) ==
    {q \in DOMAIN fs :
        CASE pattern = "*.csv" -> ~IsDir(q) /\ q.dir = in_dir /\ q.suffix = ".csv"
          [] pattern = "*/*.csv" ->
                ~IsDir(q) /\ Len(q.dir) = Len(in_dir) + 1 /\ IsPrefix(in_dir, q.dir)
                /\ q.suffix = ".csv"
          [] OTHER ->
                \/ ~IsDir(q) /\ q.dir = in_dir
                \/ IsDir(q) /\ Len(q.dir) = Len(in_dir) + 1 /\ IsPrefix(in_dir, q.dir)}

\* in_csv.name
FileName(in_csv) ==
    IF IsDir(in_csv) THEN [stem |-> in_csv.dir[Len(in_csv.dir)], suffix |-> ""]
    ELSE [stem |-> in_csv.stem, suffix |-> in_csv.suffix]

\* out_dir / in_csv.name
out_path(out_dir, in_csv) == Path(out_dir, FileName(in_csv).stem, FileName(in_csv).suffix)

Rates(vector, raster, beams, text) ==
    [vector |-> vector, raster |-> raster, beams |-> beams, expr |-> text]
BatchRow(file, n_in, n_out, pass_rate, rates, out_csv) ==
    [file |-> file, N_in |-> n_in, N_out |-> n_out, pass_rate |-> pass_rate,
     vector_pass_rate |-> rates.vector, raster_pass_rate |-> rates.raster,
     beams_pass_rate |-> rates.beams, expr_pass_rate |-> rates.expr, out_csv |-> out_csv]
NoBatchRow == BatchRow([stem |-> "", suffix |-> ""], 0, 0, FNan, Rates(None, None, None, None), Dir(<<>>))
OneOut(exc, fs, row) == [exc |-> exc, files |-> fs, row |-> row]

\* if expr: / if vector_mask: / if raster_mask:
EmptyString == [empty |-> TRUE]
Truthy(option) == option.some /\ option.value # EmptyString

Skipped(frame) == StageOut(NoExc, frame, NoBeamSummary)

\* "--- vector mask ---" of batch_process_one; opts holds the keyword arguments
vector_stage(frame, opts) ==
    IF ~Truthy(opts.vector_mask) THEN Skipped(frame)
    ELSE IF opts.vector_mode \in {"clip", "exclude"}
    THEN filter_by_polygon(frame, opts.vector_mask.value, opts.vector_mode = "exclude")
    ELSE StageOut(Exc("ValueError", "vector_mode must be clip or exclude", <<>>),
                  NoTable, NoBeamSummary)

\* "--- raster mask ---"
raster_stage(frame, opts) ==
    IF ~Truthy(opts.raster_mask) THEN Skipped(frame)
    ELSE filter_by_raster(frame, opts.raster_mask.value, opts.raster_keep, opts.raster_drop,
                          opts.raster_keep_nodata)

\* "--- strong beams ---"
beams_stage(frame, opts, strong_map) ==
    IF ~opts.strong_beams THEN Skipped(frame)
    ELSE IF ~strong_map.some
    THEN StageOut(Exc("ValueError", "strong_map is required when use_strong_beams=True", <<>>),
                  NoTable, NoBeamSummary)
    ELSE filter_strong_beams(frame, strong_map.value)

\* "--- expr ---": the outcomes
expr_stage(frame, opts, order) ==
    IF ~Truthy(opts.expr) THEN {Skipped(frame)}
    ELSE {StageOut(r.exc, r.out, r.summary) : r \in filter_outcomes(frame, opts.expr.value, order)}

StageRate(used, stage) == IF used THEN Some(stage.summary.pass_rate) ELSE None

\* batch_process_one: the outcomes.  A stage is run on what the stage before
\* it returned; an exception ends the call.
batch_process_one(fs, in_csv, out_dir, opts, strong_map, order) ==
    LET written(res, e, n0, rates) ==
            IF e.exc # NoExc THEN OneOut(e.exc, fs, NoBatchRow)
            ELSE IF res.exc # NoExc THEN OneOut(res.exc, res.files, NoBatchRow)
            ELSE OneOut(NoExc, res.files,
                        BatchRow(FileName(in_csv), n0, NRows(e.out), RateOf(NRows(e.out), n0),
                                 rates, out_path(out_dir, in_csv)))
    IN  UNION {UNION {UNION {UNION {
            {written(write_table(fs, e.out, out_path(out_dir, in_csv)), e, NRows(t.ret),
                     Rates(StageRate(Truthy(opts.vector_mask), v),
                           StageRate(Truthy(opts.raster_mask), r),
                           StageRate(opts.strong_beams, b),
                           StageRate(Truthy(opts.expr), e))) :
                e \in IF b.exc # NoExc THEN {b} ELSE expr_stage(b.out, opts, order)} :
            b \in {IF r.exc # NoExc THEN r ELSE beams_stage(r.out, opts, strong_map)}} :
            r \in {IF v.exc # NoExc THEN v ELSE raster_stage(v.out, opts)}} :
            v \in {IF t.exc # NoExc THEN StageOut(t.exc, NoTable, NoBeamSummary)
                   ELSE vector_stage(t.ret, opts)}} :
            t \in {read_table(fs, in_csv)}}

BatchOut(exc, fs, rows, processed) ==
    [exc |-> exc, files |-> fs, rows |-> rows, processed |-> processed]

\* a loop that passes over a file whose processing raises
RECURSIVE batch_loop_skipping(_, _, _, _, _, _, _, _)
batch_loop_skipping(fs, todo, rows, processed, out_dir, opts, strong_map, order) ==
    IF todo = <<>> THEN {BatchOut(NoExc, fs, rows, processed)}
    ELSE UNION {IF o.exc # NoExc
                THEN batch_loop_skipping(o.files, Tail(todo), rows, processed, out_dir, opts,
                                         strong_map, order)
                ELSE batch_loop_skipping(o.files, Tail(todo), Append(rows, o.row),
                                         Append(processed, Head(todo)), out_dir, opts,
                                         strong_map, order) :
                o \in batch_process_one(fs, Head(todo), out_dir, opts, strong_map, order)}

\* the for loop of batch_run: the first exception ends it
RECURSIVE batch_loop(_, _, _, _, _, _, _, _)
batch_loop(fs, todo, rows, processed, out_dir, opts, strong_map, order) ==
    IF todo = <<>> THEN {BatchOut(NoExc, fs, rows, processed)}
    ELSE UNION {IF o.exc # NoExc THEN {BatchOut(o.exc, o.files, rows, processed)}
                ELSE batch_loop(o.files, Tail(todo), Append(rows, o.row),
                                Append(processed, Head(todo)), out_dir, opts, strong_map, order) :
                o \in batch_process_one(fs, Head(todo), out_dir, opts, strong_map, order)}

\* df_sum.to_csv(summary_csv, index=False)
summary_to_csv(rows) == [kind |-> "summary", rows |-> rows]

batch_run(fs, in_dir, out_dir, opts, order) ==
    IF opts.strong_beams /\ ~opts.h5_folder.some
    THEN {BatchOut(Exc("ValueError", "h5_folder is required when strong_beams=True", <<>>),
                   fs, <<>>, <<>>)}
    ELSE UNION {UNION {
            {IF o.exc = NoExc /\ opts.summary_csv.some
             THEN [o EXCEPT !.files = Bind(o.files, opts.summary_csv.value,
                                           summary_to_csv(o.rows))]
             ELSE o :
                o \in batch_loop(fs, todo, <<>>, <<>>, out_dir, opts, strong_map, order)} :
            strong_map \in {IF opts.strong_beams
                            THEN Some(build_strong_beam_map(opts.h5_folder.value)) ELSE None}} :
            todo \in {sorted(glob(fs, in_dir, opts.pattern))}}

\* Inputs: three tables and the folders they are kept in
BatchColumns == BeamColumns \cup {"lon", "lat"}
BatchDtypes(c) ==
    IF c \in AllColumns THEN Dtypes[c] ELSE IF c \in {"lon", "lat"} THEN "float64" ELSE "object"
Measured(terrain, lon, lat, beam) ==
    [dem_h |-> Frac(100, 1), h_te_best_fit |-> Frac(98, 1), terrain_flg |-> Frac(terrain, 1),
     is_water |-> FBool(FALSE), lon |-> lon, lat |-> lat, beam |-> beam, source_file |-> SourceA]
BatchTable(rows) ==
    DataFrame(BatchColumns, [c \in BatchColumns |-> BatchDtypes(c)], RangeIndex(Len(rows)),
              [c \in BatchColumns |-> [i \in DOMAIN rows |-> rows[i][c]]])
TableTwo ==
    BatchTable(<<Measured(0, Frac(1, 2), Frac(3, 2), "gt1l"),
                 Measured(1, Frac(3, 2), Frac(3, 2), "gt1r")>>)
TableOne == BatchTable(<<Measured(0, Frac(3, 2), Frac(1, 2), "gt1l")>>)
TableNone == BatchTable(<<>>)
InDir == <<"in">>
FlatFolder ==
    [q \in {Dir(InDir), Path(InDir, "a", ".csv"), Path(InDir, "b", ".csv"),
            Path(InDir, "notes", ".txt")} |->
        IF IsDir(q) THEN Directory(TRUE)
        ELSE IF q.stem = "a" THEN to_csv(TableTwo)
        ELSE IF q.stem = "b" THEN to_csv(TableOne) ELSE Garbage]
NestedFolder ==
    [q \in {Dir(InDir), Dir(<<"in", "x">>), Dir(<<"in", "y">>), Path(<<"in", "x">>, "a", ".csv"),
            Path(<<"in", "y">>, "a", ".csv"), Path(InDir, "b", ".csv")} |->
        IF IsDir(q) THEN Directory(TRUE)
        ELSE IF q.dir = <<"in", "x">> THEN to_csv(TableTwo)
        ELSE IF q.dir = <<"in", "y">> THEN to_csv(TableOne) ELSE to_csv(TableNone)]
BrokenFolder ==
    [q \in {Dir(InDir), Path(InDir, "a", ".csv"), Path(InDir, "b", ".csv")} |->
        IF IsDir(q) THEN Directory(TRUE)
        ELSE IF q.stem = "a" THEN to_csv(TableOne) ELSE Garbage]
BatchFolders == {FlatFolder, NestedFolder, BrokenFolder, [q \in {Dir(InDir)} |-> Directory(TRUE)]}
Patterns == {"*.csv", "*/*.csv", "*"}
OutDirs == {<<"out">>, InDir}
LeftHalf == Polygon(TRUE, {c \in Cells : c[1] = Frac(1, 2)})
VectorMasks == {None, Some(LeftHalf), Some(Polygon(FALSE, {}))}
BatchExprs == {None, Some(EmptyString), Some(Text(Compare(terrain_flg, <<"Eq">>, <<Num(0)>>))), Some(BadText)}
BatchOptions ==
    {[pattern |-> pattern, expr |-> text, vector_mask |-> v, vector_mode |-> mode,
      raster_mask |-> r, raster_keep |-> Some(<<PyInt(2)>>), raster_drop |-> None,
      raster_keep_nodata |-> FALSE, strong_beams |-> beams, h5_folder |-> folder,
      summary_csv |-> summary_csv] :
        pattern \in Patterns, text \in BatchExprs, v \in VectorMasks,
        mode \in {"clip", "exclude"}, r \in {None, Some(TinyTif)}, beams \in BOOLEAN,
        folder \in {None, Some(FolderLeft)},
        summary_csv \in {None, Some(Path(<<>>, "summary", ".csv"))}}

BatchRun ==
    /\ call = "none"
    /\ \E fs \in BatchFolders, out_dir \in OutDirs, opts \in BatchOptions :
        \E order \in iter_orders(IF Truthy(opts.expr) THEN compile_expr(opts.expr.value).ret.names
                                 ELSE {},
                                 BatchColumns) :
          \E res \in batch_run(fs, InDir, out_dir, opts, order) :
              /\ args' = [files |-> fs, in_dir |-> InDir, out_dir |-> out_dir, opts |-> opts]
              /\ ret' = res
              /\ files' = res.files
    /\ call' = "batch_run"
    /\ UNCHANGED <<expr, df, compiled, raised, mask, out, summary, trace, reads, store,
                   out_at, threads, allow, status>>

NextBatch == BatchRun

SpecBatch == Init /\ [][NextBatch]_vars

BatchDone == call = "batch_run" /\ ret.exc = NoExc
Matching == glob(args.files, args.in_dir, args.opts.pattern)
RateOrOne(rate) == IF rate.some THEN rate.value ELSE Frac(1, 1)

\* every matching file is processed once, in sorted order, with one row each
ProcessedInOrder ==
    /\ Len(ret.rows) = Cardinality(Matching)
    /\ Len(ret.processed) = Len(ret.rows)
    /\ Range(ret.processed) = Matching
    /\ \A k \in DOMAIN ret.processed : \A l \in DOMAIN ret.processed :
          k < l => PathLess(ret.processed[k], ret.processed[l])

\* the counts and rates of a row; the stage rates multiply up to N_out only
\* if each stage was given what the stage before it kept, in the order
\* vector, raster, beams, expression
RowHolds(row, in_csv) ==
    /\ row.file = FileName(in_csv)
    /\ row.N_in = NRows(read_table(args.files, in_csv).ret)
    /\ row.N_out <= row.N_in
    /\ row.pass_rate = (IF row.N_in = 0 THEN Frac(0, 1) ELSE FNorm(row.N_out, row.N_in))
    /\ row.pass_rate[1] >= 0 /\ row.pass_rate[1] <= row.pass_rate[2]
    /\ row.vector_pass_rate.some = Truthy(args.opts.vector_mask)
    /\ row.raster_pass_rate.some = Truthy(args.opts.raster_mask)
    /\ row.beams_pass_rate.some = args.opts.strong_beams
    /\ row.expr_pass_rate.some = Truthy(args.opts.expr)
    /\ FMul(FMul(FMul(FMul(Frac(row.N_in, 1), RateOrOne(row.vector_pass_rate)),
                      RateOrOne(row.raster_pass_rate)),
                 RateOrOne(row.beams_pass_rate)),
            RateOrOne(row.expr_pass_rate)) = Frac(row.N_out, 1)

\* each input has an output CSV of its own, named as the input, with its rows
OneOutputEach ==
    /\ Cardinality({out_path(args.out_dir, q) : q \in Range(ret.processed)}) = Len(ret.processed)
    /\ \A k \in DOMAIN ret.rows :
          /\ ret.rows[k].out_csv \in DOMAIN files
          /\ ret.rows[k].out_csv.dir = args.out_dir
          /\ ret.rows[k].out_csv.stem = ret.processed[k].stem
          /\ files[ret.rows[k].out_csv].kind = "csv"
          /\ files[ret.rows[k].out_csv].nrows = ret.rows[k].N_out

BatchRowsHold == BatchDone => ProcessedInOrder /\ \A k \in DOMAIN ret.rows : RowHolds(ret.rows[k], ret.processed[k])

\* C18: a successful batch_run processes every file matching the pattern once,
\* in sorted order, writes one output CSV of the same file name per input and
\* returns one summary row per input, each with N_out <= N_in and
\* pass_rate = N_out / N_in (0.0 when N_in = 0), the enabled stages applied in
\* the order vector mask, raster mask, strong beams, expression.
C18_Batch ==
    BatchDone =>
        /\ ProcessedInOrder
        /\ \A k \in DOMAIN ret.rows : RowHolds(ret.rows[k], ret.processed[k])
        /\ OneOutputEach

\* ------------------------------------------------------------------------
\* vector_mask.py: clip_points and exclude_points on one table and one mask
\* ------------------------------------------------------------------------
\* keep only points inside polygon
clip_points(frame, polygon) == filter_by_polygon(frame, polygon, FALSE)

\* an exclude that selects as clip does
exclude_points_inside(frame, polygon) == filter_by_polygon(frame, polygon, FALSE)

\* keep only points outside polygon
exclude_points(frame, polygon) == filter_by_polygon(frame, polygon, TRUE)

\* the masks: every set of cells, and a file that is not there
Polygons == {Polygon(TRUE, inside) : inside \in SUBSET Cells} \cup {Polygon(FALSE, {})}

ClipAndExclude ==
    /\ call = "none"
    /\ \E t \in RasterTables, polygon \in Polygons :
          /\ args' = [df |-> t, polygon |-> polygon]
          /\ ret' = [clip |-> clip_points(t, polygon), exclude |-> exclude_points(t, polygon)]
    /\ call' = "clip_exclude"
    /\ UNCHANGED <<expr, df, compiled, raised, mask, out, summary, trace, reads, store,
                   out_at, threads, allow, files, status>>

NextVector == ClipAndExclude

SpecVector == Init /\ [][NextVector]_vars

BothReturned == call = "clip_exclude" /\ ret.clip.exc = NoExc /\ ret.exclude.exc = NoExc
\* the rows whose point satisfies the predicate against the mask
RowsInside ==
    {i \in DOMAIN args.df.index :
        <<args.df.data["lon"][i], args.df.data["lat"][i]>> \in args.polygon.inside}
RowsOf(result) == {result.index[k] + 1 : k \in DOMAIN result.index}
\* the rows of result are rows of the table given, each once, in its order
RowsKept(result) ==
    /\ \A k \in DOMAIN result.index : \A l \in DOMAIN result.index :
          k < l => result.index[k] < result.index[l]
    /\ \A k \in DOMAIN result.index : \A c \in args.df.columns :
          result.data[c][k] = args.df.data[c][result.index[k] + 1]

\* C21: clip_points keeps exactly the rows whose point satisfies the predicate
\* against the mask and exclude_points exactly the other rows: the outputs
\* are disjoint and together hold every input row once; each summary has
\* N_total = input rows and N_pass = output rows; with an empty mask clip
\* keeps nothing and exclude keeps everything.
C21_ClipExclude ==
    /\ call = "clip_exclude" => (ret.clip.exc = NoExc) = (ret.exclude.exc = NoExc)
    /\ BothReturned =>
        /\ RowsOf(ret.clip.out) = RowsInside
        /\ RowsOf(ret.exclude.out) = DOMAIN args.df.index \ RowsInside
        /\ RowsKept(ret.clip.out) /\ RowsKept(ret.exclude.out)
        /\ RowsOf(ret.clip.out) \cap RowsOf(ret.exclude.out) = {}
        /\ NRows(ret.clip.out) + NRows(ret.exclude.out) = NRows(args.df)
        /\ ret.clip.summary.N_total = NRows(args.df)
        /\ ret.exclude.summary.N_total = NRows(args.df)
        /\ ret.clip.summary.N_pass = NRows(ret.clip.out)
        /\ ret.exclude.summary.N_pass = NRows(ret.exclude.out)
        /\ args.polygon.inside = {} =>
              NRows(ret.clip.out) = 0 /\ ret.exclude.out.index = args.df.index

C21_Witness ==
    /\ BothReturned
    /\ NRows(args.df) = MaxRows
    /\ args.polygon = LeftHalf
    /\ NRows(ret.clip.out) = 1
    /\ ret.exclude.out.index = <<0>>

\* ------------------------------------------------------------------------
\* atl08.py: read_atl08_h5
\* ------------------------------------------------------------------------
\* A dataset path is the sequence of its parts: <<"terrain", "/", "h_te_mean">>
_ALL_BEAMS == <<"gt1l", "gt1r", "gt2l", "gt2r", "gt3l", "gt3r">>
Field(col, path) == [col |-> col, path |-> path]
Under(group, name) == <<group, "/", name>>
\* the dict _DEFAULT_FIELDS, in insertion order
_DEFAULT_FIELDS ==
    <<Field(<<"dem_h">>, <<"dem_h">>),
      Field(<<"h_te_interp">>, Under("terrain", "h_te_interp")),
      Field(<<"h_te_mean">>, Under("terrain", "h_te_mean")),
      Field(<<"h_te_best_fit">>, Under("terrain", "h_te_best_fit")),
      Field(<<"terrain_flg">>, <<"terrain_flg">>),
      Field(<<"urban_flag">>, <<"urban_flag">>),
      Field(<<"cloud_flag_atm">>, <<"cloud_flag_atm">>),
      Field(<<"terrain_slope">>, Under("terrain", "terrain_slope")),
      Field(<<"n_te_photons">>, Under("terrain", "n_te_photons"))>>

\* item.replace("/", "_")
ReplaceSlash(item) == [i \in DOMAIN item |-> IF item[i] = "/" THEN "_" ELSE item[i]]

\* mapping[col] = path on a dict kept in insertion order
DictSet(mapping, col, path) ==
    IF \E i \in DOMAIN mapping : mapping[i].col = col
    THEN [i \in DOMAIN mapping |-> IF mapping[i].col = col THEN Field(col, path) ELSE mapping[i]]
    ELSE Append(mapping, Field(col, path))

\* the for loop of _resolve_fields
RECURSIVE resolve_items(_, _)
resolve_items(items, mapping) ==
    IF items = <<>> THEN mapping
    ELSE resolve_items(
            Tail(items),
            IF Head(items) = <<>> THEN mapping
            ELSE IF \E i \in DOMAIN _DEFAULT_FIELDS : _DEFAULT_FIELDS[i].col = Head(items)
            THEN DictSet(mapping, Head(items),
                         (CHOOSE f \in Range(_DEFAULT_FIELDS) : f.col = Head(items)).path)
            ELSE IF \E i \in DOMAIN _DEFAULT_FIELDS : _DEFAULT_FIELDS[i].path = Head(items)
            THEN DictSet(mapping,
                         (CHOOSE f \in Range(_DEFAULT_FIELDS) : f.path = Head(items)).col,
                         Head(items))
            ELSE DictSet(mapping, ReplaceSlash(Head(items)), Head(items)))

\* _resolve_fields for a fields list that is not None
_resolve_fields(fields) ==
    IF resolve_items(fields, <<>>) = <<>>
    THEN [exc |-> Exc("ValueError", "fields resolved to empty selection", <<>>), ret |-> <<>>]
    ELSE [exc |-> NoExc, ret |-> resolve_items(fields, <<>>)]

\* b[1:] if b.startswith("/")
StripSlash(b) == IF Len(b) > 0 /\ Head(b) = "/" THEN Tail(b) ELSE b

\* the for loop of _normalize_beams; a beam name is given as its parts
RECURSIVE normalize_beam_items(_, _)
normalize_beam_items(beams, acc) ==
    IF beams = <<>> THEN [exc |-> NoExc, ret |-> acc]
    ELSE IF Head(beams) = <<>> THEN normalize_beam_items(Tail(beams), acc)
    ELSE IF StripSlash(Head(beams)) \notin {<<b>> : b \in Range(_ALL_BEAMS)}
    THEN [exc |-> Exc("ValueError", "Unknown beam name: ", StripSlash(Head(beams))), ret |-> <<>>]
    ELSE normalize_beam_items(Tail(beams), Append(acc, StripSlash(Head(beams))[1]))

_normalize_beams(beams) ==
    IF ~beams.some THEN [exc |-> NoExc, ret |-> _ALL_BEAMS]
    ELSE normalize_beam_items(beams.value, <<>>)

\* An HDF5 file: its sc_orient and, for each beam it has, the datasets
\* below /{beam}/land_segments, each with its ndim and its length
Dataset(ndim, length) == [ndim |-> ndim, len |-> length]
H5File(exists, sc_orient, groups) == [exists |-> exists, sc_orient |-> sc_orient, groups |-> groups]
Latitude == <<"latitude">>
Longitude == <<"longitude">>

\* a length test that accepts every length
length_differs_never(dataset, n) == FALSE

\* len(arr) != n
length_differs(dataset, n) == dataset.len # n

\* the strict loop over field_map on one beam: [exc, cols, used]
RECURSIVE extract_fields(_, _, _, _, _)
extract_fields(datasets, n, field_map, cols, used) ==
    IF field_map = <<>> THEN [exc |-> NoExc, cols |-> cols, used |-> used, skipped |-> {}]
    ELSE IF Head(field_map).path \notin DOMAIN datasets
    THEN [exc |-> Exc("KeyError", "Dataset missing in ", Head(field_map).path),
          cols |-> {}, used |-> {}, skipped |-> {}]
    ELSE IF datasets[Head(field_map).path].ndim # 1
    THEN [exc |-> Exc("ValueError", "not 1D", Head(field_map).path),
          cols |-> {}, used |-> {}, skipped |-> {}]
    ELSE IF length_differs(datasets[Head(field_map).path], n)
    THEN [exc |-> Exc("ValueError", "length mismatch", Head(field_map).path),
          cols |-> {}, used |-> {}, skipped |-> {}]
    ELSE extract_fields(datasets, n, Tail(field_map), cols \cup {Head(field_map).col},
                        used \cup {Head(field_map).path})

\* the order in which walk meets the datasets of the model: by name, groups entered in place
WalkOrder ==
    <<<<"bad_2d">>, <<"bad_len">>, <<"dem_h">>, Latitude, Longitude, Under("terrain", "h_te_mean")>>

\* walk(grp, "") of the auto mode on one beam
RECURSIVE scan_fields(_, _, _, _, _, _)
scan_fields(datasets, n, todo, cols, used, skipped) ==
    IF todo = <<>> THEN [exc |-> NoExc, cols |-> cols, used |-> used, skipped |-> skipped]
    ELSE IF Head(todo) \notin DOMAIN datasets
    THEN scan_fields(datasets, n, Tail(todo), cols, used, skipped)
    ELSE IF datasets[Head(todo)].ndim # 1 \/ datasets[Head(todo)].len # n
    THEN scan_fields(datasets, n, Tail(todo), cols, used, skipped \cup {Head(todo)})
    ELSE scan_fields(datasets, n, Tail(todo),
                     cols \cup {IF ReplaceSlash(Head(todo)) \in cols
                                THEN <<"ls_">> \o ReplaceSlash(Head(todo))
                                ELSE ReplaceSlash(Head(todo))},
                     used \cup {Head(todo)}, skipped)

ReadSummary(n_total, n_out, pass_rate, beams_used, fields_used, fields_skipped) ==
    [N_total |-> n_total, N_out |-> n_out, pass_rate |-> pass_rate, beams_used |-> beams_used,
     fields_used |-> fields_used, fields_skipped |-> fields_skipped]
NoReadSummary == ReadSummary(0, 0, FNan, <<>>, {}, {})
\* the table returned: its columns and the number of its rows
Frame(columns, nrows) == [columns |-> columns, nrows |-> nrows]
ReadOut(exc, frame, read_summary) == [exc |-> exc, out |-> frame, summary |-> read_summary]
ReadAcc(frames, columns, nrows, used, skipped) ==
    [frames |-> frames, columns |-> columns, nrows |-> nrows, used |-> used, skipped |-> skipped]

\* the loop over selected_beams; fields is optional
RECURSIVE read_beams(_, _, _, _, _)
read_beams(file, todo, selected, fields, acc) ==
    IF todo = <<>>
    THEN ReadOut(NoExc, Frame(acc.columns, acc.nrows),
                 ReadSummary(acc.nrows, acc.nrows, RateOf(acc.nrows, acc.nrows), selected,
                             acc.used, acc.skipped))
    ELSE IF Head(todo) \notin DOMAIN file.groups
            \/ file.groups[Head(todo)][Latitude].len = 0
    THEN read_beams(file, Tail(todo), selected, fields, acc)
    ELSE CHOOSE result \in
            {IF got.exc # NoExc THEN ReadOut(got.exc, Frame({}, 0), NoReadSummary)
             ELSE read_beams(file, Tail(todo), selected, fields,
                             ReadAcc(acc.frames + 1,
                                     acc.columns \cup got.cols \cup {<<"source_file">>},
                                     acc.nrows + file.groups[Head(todo)][Latitude].len,
                                     acc.used \cup got.used, acc.skipped \cup got.skipped)) :
             got \in {IF ~fields.some
                      THEN scan_fields(file.groups[Head(todo)],
                                       file.groups[Head(todo)][Latitude].len, WalkOrder,
                                       {<<"lon">>, <<"lat">>, <<"beam">>}, {}, {})
                      ELSE IF _resolve_fields(fields.value).exc # NoExc
                      THEN [exc |-> _resolve_fields(fields.value).exc, cols |-> {},
                            used |-> {}, skipped |-> {}]
                      ELSE extract_fields(file.groups[Head(todo)],
                                          file.groups[Head(todo)][Latitude].len,
                                          _resolve_fields(fields.value).ret,
                                          {<<"lon">>, <<"lat">>, <<"beam">>}, {})}} : TRUE

\* selected_beams after the strong_only filter
strong_selection(file, selected, strong_only) ==
    IF strong_only
    THEN SelectSeq(selected, LAMBDA b : b \in Range(get_strong_beams(file.sc_orient)))
    ELSE selected

read_atl08_h5(file, beams, strong_only, fields) ==
    IF ~file.exists
    THEN ReadOut(Exc("FileNotFoundError", "H5 not found: ", <<>>), Frame({}, 0), NoReadSummary)
    ELSE IF _normalize_beams(beams).exc # NoExc
    THEN ReadOut(_normalize_beams(beams).exc, Frame({}, 0), NoReadSummary)
    ELSE CHOOSE result \in
            {read_beams(file, selected, selected, fields, ReadAcc(0, {}, 0, {}, {})) :
             selected \in {strong_selection(file, _normalize_beams(beams).ret, strong_only)}} :
            TRUE

\* Inputs: files whose beams gt1l and gt1r are absent, empty or filled, with
\* datasets that are absent, aligned, 2-D or of another length
DatasetKinds == {"absent", "aligned", "2d", "other_length"}
DatasetOf(kind, n) ==
    IF kind = "2d" THEN Dataset(2, n)
    ELSE IF kind = "other_length" THEN Dataset(1, n + 1)
    ELSE Dataset(1, n)
LandSegments(n, dem_kind, mean_kind) ==
    [p \in {Latitude, Longitude}
           \cup (IF dem_kind # "absent" THEN {<<"dem_h">>} ELSE {})
           \cup (IF mean_kind # "absent" THEN {Under("terrain", "h_te_mean")} ELSE {}) |->
        IF p = <<"dem_h">> THEN DatasetOf(dem_kind, n)
        ELSE IF p = Under("terrain", "h_te_mean") THEN DatasetOf(mean_kind, n)
        ELSE Dataset(1, n)]
LeftGroups ==
    {LandSegments(n, a, b) : n \in {0, MaxRows}, a \in DatasetKinds, b \in DatasetKinds}
RightGroups ==
    {LandSegments(0, "absent", "absent"), LandSegments(MaxRows, "aligned", "aligned"),
     LandSegments(MaxRows, "2d", "aligned")}
H5Files ==
    {H5File(TRUE, 0, ("gt1l" :> l) @@ ("gt1r" :> r)) : l \in LeftGroups, r \in RightGroups}
    \cup {H5File(TRUE, 0, "gt1l" :> l) : l \in LeftGroups}
    \cup {H5File(TRUE, 0, "gt1r" :> r) : r \in RightGroups}
    \cup {H5File(FALSE, 0, <<>>)}
BeamLists == {None, Some(<<<<"gt1r">>, <<"/", "gt1l">>>>), Some(<<<<"gtx">>>>)}
FieldLists ==
    {None, Some(<<<<"dem_h">>>>), Some(<<Under("terrain", "h_te_mean"), <<"dem_h">>>>),
     Some(<<<<"h_te_mean">>>>), Some(<<<<>>>>)}

ReadAtl08 ==
    /\ call = "none"
    /\ \E file \in H5Files, beams \in BeamLists, strong_only \in BOOLEAN, fields \in FieldLists :
          /\ args' = [file |-> file, beams |-> beams, strong_only |-> strong_only,
                      fields |-> fields]
          /\ ret' = read_atl08_h5(file, beams, strong_only, fields)
    /\ call' = "read_atl08_h5"
    /\ UNCHANGED <<expr, df, compiled, raised, mask, out, summary, trace, reads, store, out_at,
                   threads, allow, files, status>>

NextExtract == ReadAtl08
SpecExtract == Init /\ [][NextExtract]_vars

ReadReturned == call = "read_atl08_h5"
\* the call got as far as the loop over the beams
BeamsSelected == args.file.exists /\ _normalize_beams(args.beams).exc = NoExc
SelectedBeams ==
    Range(strong_selection(args.file, _normalize_beams(args.beams).ret, args.strong_only))
    \cap DOMAIN args.file.groups
NonEmptyBeams == {b \in SelectedBeams : args.file.groups[b][Latitude].len > 0}
RequestedPaths == {f.path : f \in Range(_resolve_fields(args.fields.value).ret)}
\* what is wrong with a requested path in a beam: the exception it calls for
Fault(b, path) ==
    IF path \notin DOMAIN args.file.groups[b] THEN "KeyError"
    ELSE IF args.file.groups[b][path].ndim # 1 THEN "ValueError"
    ELSE IF args.file.groups[b][path].len # args.file.groups[b][Latitude].len THEN "ValueError"
    ELSE ""
Faults(beamset) == {Fault(b, path) : b \in beamset, path \in RequestedPaths} \ {""}
Misaligned(beamset) ==
    UNION {{path \in DOMAIN args.file.groups[b] :
               \/ args.file.groups[b][path].ndim # 1
               \/ args.file.groups[b][path].len # args.file.groups[b][Latitude].len} :
           b \in beamset}
StrictHolds(beamset) ==
    (args.fields.some /\ _resolve_fields(args.fields.value).exc = NoExc
        /\ Faults(beamset) # {})
    => ret.exc.type \in Faults(beamset) /\ ret.out = Frame({}, 0)
AutoHolds(beamset) ==
    ~args.fields.some => ret.exc = NoExc /\ Misaligned(beamset) \subseteq ret.summary.fields_skipped

\* C22 (as stated): with a fields list, a requested field that is missing in a
\* selected beam raises KeyError, one that is not 1-D or of another length than
\* the beam's latitude raises ValueError, and no table is returned; with
\* fields=None such datasets never raise and are all in fields_skipped.
C22_StrictEveryBeam ==
    (ReadReturned /\ BeamsSelected) => StrictHolds(SelectedBeams) /\ AutoHolds(SelectedBeams)

\* C22 (amended): the same, for the selected beams that have at least one land
\* segment; a beam that is absent or empty is passed over before its fields are
\* looked at.
C22_StrictNonEmptyBeams ==
    (ReadReturned /\ BeamsSelected) => StrictHolds(NonEmptyBeams) /\ AutoHolds(NonEmptyBeams)

C22_Witness ==
    /\ ReadReturned /\ BeamsSelected /\ args.fields.some
    /\ Cardinality(NonEmptyBeams) = 2
    /\ ret.exc.type = "ValueError" /\ ret.exc.msg = "length mismatch"

\* ------------------------------------------------------------------------
\* beams.py: get_strong_beams and filter_strong_beams on their own
\* ------------------------------------------------------------------------
Orients == {-1, 0, 1, 2}
StrongMaps ==
    {build_strong_beam_map(FolderLeft), build_strong_beam_map(FolderMixed), <<>>,
     [key \in {<<"ATL08_", "A">>, <<"ATL08_", "B">>} |-> get_strong_beams(0) \o get_strong_beams(1)]}

FilterStrongBeams ==
    /\ call = "none"
    /\ \E t \in PipelineTables, strong_map \in StrongMaps, sc_orient \in Orients :
          /\ args' = [df |-> t, strong_map |-> strong_map, sc_orient |-> sc_orient]
          /\ ret' = [strong |-> get_strong_beams(sc_orient),
                     filtered |-> filter_strong_beams(t, strong_map)]
    /\ call' = "filter_strong_beams"
    /\ UNCHANGED <<expr, df, compiled, raised, mask, out, summary, trace, reads, store, out_at,
                   threads, allow, files, status>>

NextBeams == FilterStrongBeams
SpecBeams == Init /\ [][NextBeams]_vars

BeamsFiltered ==
    /\ call = "filter_strong_beams"
    /\ {"beam", "source_file"} \subseteq args.df.columns
\* the rows whose beam is listed for their normalized source file
ListedRows ==
    {i \in DOMAIN args.df.index :
        /\ _norm_src_name(args.df.data["source_file"][i]) \in DOMAIN args.strong_map
        /\ \E k \in DOMAIN args.strong_map[_norm_src_name(args.df.data["source_file"][i])] :
              args.strong_map[_norm_src_name(args.df.data["source_file"][i])][k]
                  = args.df.data["beam"][i]}

\* C23: get_strong_beams returns the three left beams for sc_orient 0, the
\* three right beams for sc_orient 1 and the empty list for any other value;
\* filter_strong_beams keeps a row if and only if its beam is in the list
\* recorded for its normalized source file, so a row whose source file has no
\* entry in the map is dropped.
C23_StrongBeams ==
    /\ call = "filter_strong_beams" =>
          ret.strong = (IF args.sc_orient = 0 THEN <<"gt1l", "gt2l", "gt3l">>
                        ELSE IF args.sc_orient = 1 THEN <<"gt1r", "gt2r", "gt3r">>
                        ELSE <<>>)
    /\ BeamsFiltered =>
          /\ ret.filtered.exc = NoExc
          /\ RowsOf(ret.filtered.out) = ListedRows
          /\ RowsKept(ret.filtered.out)
          /\ ret.filtered.summary.N_total = NRows(args.df)
          /\ ret.filtered.summary.N_pass = Cardinality(ListedRows)
          /\ \A i \in DOMAIN args.df.index :
                _norm_src_name(args.df.data["source_file"][i]) \notin DOMAIN args.strong_map
                    => i \notin RowsOf(ret.filtered.out)

C23_Witness ==
    /\ BeamsFiltered
    /\ args.sc_orient = 2 /\ ret.strong = <<>>
    /\ NRows(args.df) = 2 /\ NRows(ret.filtered.out) = 1
    /\ args.strong_map = build_strong_beam_map(FolderLeft)
    /\ _norm_src_name(args.df.data["source_file"][1]) \notin DOMAIN args.strong_map
    /\ RowsOf(ret.filtered.out) = {2}

\* ------------------------------------------------------------------------
\* expr.py: `not`, the fold of and/or, and what escapes eval_expr
\* ------------------------------------------------------------------------
NotAtTop ==
    /\ call = "eval_expr" /\ compiled # NoCompiled /\ ColumnsPresent
    /\ compiled.ast_tree.body.kind = "UnaryOp"
    /\ compiled.ast_tree.body.op.kind = "Not"
NotOperand == _eval_node(compiled.ast_tree.body.operand, Env(compiled, df), <<>>)
\* the complement of a boolean value, as a mask over the rows of df
Complement(v) ==
    [i \in 1..NRows(df) |->
        IF IsSeries(v) THEN FBool(v.values[i] = Frac(0, 1)) ELSE FBool(v.v = Frac(0, 1))]

\* C24: for a boolean-valued operand v, vector or scalar, `not v` evaluates
\* to the logical complement of v.
C24_NotIsComplement ==
    (NotAtTop /\ NotOperand.exc = NoExc /\ IsBoolean(NotOperand.val)) =>
        /\ raised = NoExc
        /\ mask.values = Complement(NotOperand.val)

\* the same for vector and numpy operands only
NotOfVectorIsComplement ==
    (NotAtTop /\ NotOperand.exc = NoExc /\ IsBoolean(NotOperand.val)
        /\ NotOperand.val.t # "bool") =>
        /\ raised = NoExc
        /\ mask.values = Complement(NotOperand.val)

BoolOpAtTop ==
    /\ call = "eval_expr" /\ compiled # NoCompiled /\ ColumnsPresent
    /\ compiled.ast_tree.body.kind = "BoolOp"
Operands == compiled.ast_tree.body.values
BoolOperand(k) == _eval_node(Operands[k], Env(compiled, df), <<k>>)
\* whether boolean operand k is true at row i
TrueAt(k, i) ==
    IF IsSeries(BoolOperand(k).val) THEN BoolOperand(k).val.values[i] # Frac(0, 1)
    ELSE BoolOperand(k).val.v # Frac(0, 1)
Failing == {k \in DOMAIN Operands : BoolOperand(k).exc # NoExc}
\* where in trace operand k was entered; 0 if it was not
EnteredAt(k) ==
    IF \E j \in DOMAIN trace : trace[j] = <<k>>
    THEN CHOOSE j \in DOMAIN trace : trace[j] = <<k>> ELSE 0

\* C25: a boolean operation evaluates all of its operands, left to right and
\* without short-circuit; for boolean operands `and` is true at a row iff every
\* operand is true there and `or` iff some operand is; an error in a later
\* operand is raised even when an earlier operand already decides the result.
C25_NoShortCircuit ==
    BoolOpAtTop =>
        /\ (Failing = {} /\ \A k \in DOMAIN Operands : IsBoolean(BoolOperand(k).val)) =>
              /\ raised = NoExc
              /\ \A i \in 1..NRows(df) :
                    mask.values[i] =
                        FBool(IF compiled.ast_tree.body.op.kind = "And"
                              THEN \A k \in DOMAIN Operands : TrueAt(k, i)
                              ELSE \E k \in DOMAIN Operands : TrueAt(k, i))
        /\ Failing = {} =>
              /\ \A k \in DOMAIN Operands : EnteredAt(k) > 0
              /\ \A k \in DOMAIN Operands : \A l \in DOMAIN Operands :
                    k < l => EnteredAt(k) < EnteredAt(l)
        /\ Failing # {} =>
              \E k \in Failing :
                  /\ \A l \in Failing : k <= l
                  /\ raised = BoolOperand(k).exc

C25_Witness ==
    /\ BoolOpAtTop
    /\ compiled.ast_tree.body.op.kind = "Or"
    /\ BoolOperand(1).exc = NoExc /\ BoolOperand(1).val = PyTrue
    /\ Failing = {2}
    /\ raised.type = "ZeroDivisionError"

\* ------------------------------------------------------------------------
\* expr.py: where the mask eval_expr returns keeps its values
\* ------------------------------------------------------------------------
\* store.df holds the arrays of the table's columns, store.out those of the
\* masks returned so far; out_at says, for each mask returned, whether its
\* values are an array of its own or the array of a column of the table.
MaxMasks == 2
OwnArray == [at |-> "mask", col |-> ""]
ColumnArray(c) == [at |-> "df", col |-> c]

\* pd.Series(result, index=df.index, dtype=bool).  When result is env[c] = df[c],
\* a Series of that index and dtype, the constructor is called without copy:
\* the new Series has the column's array under pandas without copy-on-write
\* and an array of its own under pandas with it.  Every other result is an
\* object _eval_node has just made.
series_storage(tree) ==
    IF tree.body.kind = "Name" THEN {ColumnArray(tree.body.id), OwnArray} ELSE {OwnArray}

MaskTables == {t \in Tables : NRows(t) >= 1 /\ "is_water" \in t.columns}
MaskExprs == {is_water, Compare(terrain_flg, <<"Eq">>, <<Num(0)>>), Constant(PyTrue)}

\* mask = eval_expr(compile_expr(e), t), once more on the same table
EvalMask ==
    /\ call \in {"none", "eval_mask"}
    /\ call = "eval_mask" => Len(ret) < MaxMasks
    /\ \E t \in (IF call = "none" THEN MaskTables ELSE {args}), e \in MaskExprs :
        \E c \in {compile_expr(Text(e)).ret} :
            \E order \in iter_orders(c.names, t.columns) :
                \E res \in {eval_expr(c, t, order)}, at \in series_storage(c.ast_tree) :
                    /\ res.exc = NoExc
                    /\ args' = t
                    /\ ret' = (IF call = "none" THEN <<>> ELSE ret) \o <<res.ret>>
                    /\ store' = [df |-> t.data,
                                 out |-> (IF call = "none" THEN <<>> ELSE store.out)
                                            \o <<res.ret.values>>]
                    /\ out_at' = (IF call = "none" THEN <<>> ELSE out_at) \o <<at>>
    /\ call' = "eval_mask"
    /\ UNCHANGED <<expr, df, compiled, raised, mask, out, summary, trace, reads,
                   threads, allow, files, status>>

\* the caller overwrites the first entry of a mask it was given back
ModifyMask ==
    /\ call = "eval_mask"
    /\ \E k \in DOMAIN out_at :
          store' = IF out_at[k].at = "df"
                   THEN [store EXCEPT !.df[out_at[k].col][1] = FNot(@)]
                   ELSE [store EXCEPT !.out[k][1] = FNot(@)]
    /\ call' = "modify_mask"
    /\ UNCHANGED <<expr, df, compiled, raised, mask, out, summary, trace, reads, out_at,
                   threads, allow, files, status, args, ret>>

NextMask == EvalMask \/ ModifyMask
SpecMask == Init /\ [][NextMask]_vars

\* the values mask k shows now
MaskView(k) == IF out_at[k].at = "df" THEN store.df[out_at[k].col] ELSE store.out[k]

\* C26: the mask eval_expr returns shares storage neither with a mask returned
\* by an earlier call nor with a column of the table: after one returned mask
\* is modified, every other mask and every column of the table is as it was,
\* also when the expression is just a boolean column name.
C26_FreshMask ==
    call = "modify_mask" =>
        /\ store.df = args.data
        /\ Cardinality({k \in DOMAIN ret : MaskView(k) # ret[k].values}) = 1

\* the same for expressions other than a bare column name
FreshMaskUnlessName ==
    (call = "modify_mask" /\ \A k \in DOMAIN out_at : out_at[k] = OwnArray) =>
        /\ store.df = args.data
        /\ Cardinality({k \in DOMAIN ret : MaskView(k) # ret[k].values}) = 1

\* ------------------------------------------------------------------------
\* Row independence
\* ------------------------------------------------------------------------
\* the selections of rows of a table of n rows: each row at most once, in any order
RowSelections(n) ==
    UNION {{sel \in [1..k -> 1..n] : \A a \in 1..k : \A b \in 1..k : a # b => sel[a] # sel[b]} :
           k \in 0..n}
\* the sub-table that has the rows sel of frame, in the order of sel
SubTable(frame, sel) ==
    DataFrame(frame.columns, frame.dtypes, [j \in DOMAIN sel |-> frame.index[sel[j]]],
              [c \in frame.columns |-> [j \in DOMAIN sel |-> frame.data[c][sel[j]]]])
MaskOfSub(sel) ==
    eval_expr(compiled, SubTable(df, sel),
              CHOOSE order \in iter_orders(compiled.names, df.columns) : TRUE)
FilteredAgain ==
    filter_by_expr(out, expr, CHOOSE order \in iter_orders(compiled.names, out.columns) : TRUE)

\* C27: the mask entry of row i depends only on the values in row i: evaluating
\* on any sub-table (a subset or reordering of the rows) gives the
\* corresponding entries of the mask of the full table, and filter_by_expr
\* applied to its own output with the same expression returns the same rows.
C27_RowIndependence ==
    /\ (call = "eval_expr" /\ compiled # NoCompiled /\ raised = NoExc) =>
          \A sel \in RowSelections(NRows(df)) :
              /\ MaskOfSub(sel).exc = NoExc
              /\ MaskOfSub(sel).ret.values = [j \in DOMAIN sel |-> mask.values[sel[j]]]
              /\ MaskOfSub(sel).ret.index = [j \in DOMAIN sel |-> df.index[sel[j]]]
    /\ (call = "filter_by_expr" /\ compiled # NoCompiled /\ raised = NoExc) =>
          /\ FilteredAgain.exc = NoExc
          /\ FilteredAgain.out = out

C27_Witness ==
    /\ call = "eval_expr" /\ raised = NoExc
    /\ NRows(df) = MaxRows
    /\ mask.values[1] # mask.values[2]
    /\ MaskOfSub(<<2, 1>>).ret.values = <<mask.values[2], mask.values[1]>>
    /\ compiled.names # {}

\* C28: for every expression that compiles, eval_expr either returns a mask or
\* raises ExprError; no other exception type escapes evaluation.
C28_OnlyExprError ==
    (call = "eval_expr" /\ compiled # NoCompiled) => raised.type \in {"", "ExprError"}

\* what escapes eval_expr is ExprError, TypeError, ValueError or ZeroDivisionError
EscapingTypes ==
    (call = "eval_expr" /\ compiled # NoCompiled) =>
        raised.type \in {"", "ExprError", "TypeError", "ValueError", "ZeroDivisionError"}

\* ------------------------------------------------------------------------
\* cli.py: the raster and vector commands
\* ------------------------------------------------------------------------
\* The parts of a file name: text, or a run of eight digits read as a date
Lit(text) == [lit |-> text, yyyy |-> "", mm |-> "", dd |-> ""]
Date8(yyyy, mm, dd) == [lit |-> "", yyyy |-> yyyy, mm |-> mm, dd |-> dd]

\* water.py: _ATL08_YYYYMM_RE.search(Path(name).stem), the extension being the last part
extract_yyyymm_from_atl08_name(name) ==
    IF \E i \in 1..(Len(name) - 2) : name[i] = Lit("ATL08_") /\ name[i + 1].yyyy # ""
    THEN [exc |-> NoExc,
          ret |-> <<name[(CHOOSE i \in 1..(Len(name) - 2) :
                            /\ name[i] = Lit("ATL08_") /\ name[i + 1].yyyy # ""
                            /\ \A j \in 1..(i - 1) :
                                  ~(name[j] = Lit("ATL08_") /\ name[j + 1].yyyy # "")) + 1].yyyy,
                    name[(CHOOSE i \in 1..(Len(name) - 2) :
                            /\ name[i] = Lit("ATL08_") /\ name[i + 1].yyyy # ""
                            /\ \A j \in 1..(i - 1) :
                                  ~(name[j] = Lit("ATL08_") /\ name[j + 1].yyyy # "")) + 1].mm>>]
    ELSE [exc |-> Exc("ValueError", "Cannot infer YYYYMM from ATL08 name: ", <<>>), ret |-> <<>>]

\* the keys of the dict filter_by_raster returns as summary
summary_keys(frame) ==
    IF NRows(frame) = 0 THEN {"N_total", "N_pass", "pass_rate", "N_nodata"}
    ELSE {"raster", "N_total", "N_pass", "pass_rate", "N_nodata"}

\* what a command does: the value it returns, or the exception it lets through
\* (status -1: nothing is returned)
Returns(code, fs) == [status |-> code, exc |-> NoExc, files |-> fs]
LetsThrough(exc, fs) == [status |-> -1, exc |-> exc, files |-> fs]

\* `except Exception`: return 2
except_exception(exc, fs) ==
    IF exc.type \notin {"KeyboardInterrupt", "SystemExit", "GeneratorExit"}
    THEN Returns(2, fs) ELSE LetsThrough(exc, fs)

cmd_raster(fs, a) ==
    CHOOSE result \in
        {IF r.exc # NoExc THEN except_exception(r.exc, fs)
         ELSE CHOOSE after \in
            {IF f.exc # NoExc THEN except_exception(f.exc, fs)
             ELSE CHOOSE done \in
                {IF w.exc # NoExc THEN except_exception(w.exc, w.files)
                 ELSE IF a.summary /\ "raster" \notin summary_keys(r.ret)
                 THEN LetsThrough(Exc("KeyError", "raster", <<>>), w.files)
                 ELSE Returns(0, w.files) :
                 w \in {write_table(fs, f.out, a.output)}} : TRUE :
             f \in {filter_by_raster(r.ret, a.raster, a.keep, a.drop, a.keep_nodata)}} : TRUE :
         r \in {read_table(fs, a.input)}} : TRUE

\* the mask file the vector command uses: the one given, or {yyyymm}{ext} of the folder
mask_file(a, yyyymm) ==
    IF a.mask.some THEN a.mask.value
    ELSE IF yyyymm \in DOMAIN a.monthly_folder.value THEN a.monthly_folder.value[yyyymm]
    ELSE Polygon(FALSE, {})

cmd_vector(fs, a) ==
    CHOOSE result \in
        {IF r.exc # NoExc THEN except_exception(r.exc, fs)
         ELSE IF a.mask.some = a.monthly_folder.some THEN Returns(2, fs)
         ELSE IF a.monthly_folder.some /\ ~a.source_file.some THEN Returns(2, fs)
         ELSE IF ~a.mask.some /\ extract_yyyymm_from_atl08_name(a.source_file.value).exc # NoExc
         THEN LetsThrough(extract_yyyymm_from_atl08_name(a.source_file.value).exc, fs)
         ELSE CHOOSE after \in
            {IF f.exc # NoExc THEN except_exception(f.exc, fs)
             ELSE CHOOSE done \in
                {IF w.exc # NoExc THEN except_exception(w.exc, w.files)
                 ELSE Returns(0, w.files) :
                 w \in {write_table(fs, f.out, a.output)}} : TRUE :
             f \in {IF a.mode = "clip"
                    THEN clip_points(r.ret, mask_file(a,
                            IF a.mask.some THEN <<>>
                            ELSE extract_yyyymm_from_atl08_name(a.source_file.value).ret))
                    ELSE exclude_points(r.ret, mask_file(a,
                            IF a.mask.some THEN <<>>
                            ELSE extract_yyyymm_from_atl08_name(a.source_file.value).ret))}} : TRUE :
         r \in {read_table(fs, a.input)}} : TRUE

\* Inputs
PointFiles(t) ==
    [p \in {InCsv, Dir(<<"locked">>)} |-> IF p = InCsv THEN to_csv(t) ELSE Directory(FALSE)]
HandlerInputs == {InCsv, Path(<<>>, "absent", ".csv")}
HandlerOutputs == {OutCsv, Path(<<"locked">>, "out", ".csv")}
LeftCells == {c \in Cells : c[1] = Frac(1, 2)}
MaskFiles == {None, Some(Polygon(TRUE, LeftCells)), Some(Polygon(FALSE, {}))}
MonthlyFolders == {None, Some(<<"2020", "01">> :> Polygon(TRUE, LeftCells))}
DatedName == <<Lit("ATL08_"), Date8("2020", "01", "15"), Lit("_x"), Lit(".csv")>>
LaterName == <<Lit("ATL08_"), Date8("2021", "07", "02"), Lit(".csv")>>
UndatedName == <<Lit("points"), Lit(".csv")>>
SourceFiles == {None, Some(DatedName), Some(LaterName), Some(UndatedName)}

CmdRaster ==
    /\ call = "none"
    /\ \E t \in RasterTables, input \in HandlerInputs, output \in HandlerOutputs,
          raster \in {TinyTif, Raster(FALSE, None, CellValues(FNan, FNan, FNan, FNan))},
          keep \in {None, Some(<<PyInt(2)>>)}, drop \in {None, Some(<<PyInt(2)>>)},
          flag \in BOOLEAN :
        \E a \in {[input |-> input, output |-> output, raster |-> raster, keep |-> keep,
                   drop |-> drop, keep_nodata |-> FALSE, summary |-> flag,
                   files |-> PointFiles(t)]} :
          \E res \in {cmd_raster(a.files, a)} :
              /\ args' = a
              /\ ret' = res
              /\ files' = res.files
              /\ status' = res.status
    /\ call' = "cmd_raster"
    /\ UNCHANGED <<expr, df, compiled, raised, mask, out, summary, trace, reads, store,
                   out_at, threads, allow>>

CmdVector ==
    /\ call = "none"
    /\ \E t \in RasterTables, input \in HandlerInputs, output \in HandlerOutputs,
          mask_arg \in MaskFiles, monthly \in MonthlyFolders, source \in SourceFiles,
          mode \in {"clip", "exclude"}, flag \in BOOLEAN :
        \E a \in {[input |-> input, output |-> output, mask |-> mask_arg,
                   monthly_folder |-> monthly, source_file |-> source, mode |-> mode,
                   summary |-> flag, files |-> PointFiles(t)]} :
          \E res \in {cmd_vector(a.files, a)} :
              /\ args' = a
              /\ ret' = res
              /\ files' = res.files
              /\ status' = res.status
    /\ call' = "cmd_vector"
    /\ UNCHANGED <<expr, df, compiled, raised, mask, out, summary, trace, reads, store,
                   out_at, threads, allow>>

NextHandlers == CmdRaster \/ CmdVector
SpecHandlers == Init /\ [][NextHandlers]_vars

\* C29: a command handler returns 0 on success and 2 on every failure and
\* never lets an exception through, also for a zero-row input table with the
\* summary flag and for a monthly vector run whose source-file name has no
\* ATL08 date.
C29_HandlersReturn ==
    call \in {"cmd_raster", "cmd_vector"} => status \in {0, 2} /\ ret.exc = NoExc

\* the two ways an exception gets through
ThroughOnlyThere ==
    (call \in {"cmd_raster", "cmd_vector"} /\ status \notin {0, 2}) =>
        \/ /\ call = "cmd_raster" /\ args.summary /\ ret.exc.type = "KeyError"
           /\ NRows(read_table(args.files, args.input).ret) = 0
        \/ /\ call = "cmd_vector" /\ ret.exc.type = "ValueError"
           /\ args.monthly_folder.some /\ args.source_file = Some(UndatedName)

\* ------------------------------------------------------------------------
\* batch.py: a batch_run that fails
\* ------------------------------------------------------------------------
\* batch_run got as far as its loop over the files
LoopEntered == call = "batch_run" /\ ~(args.opts.strong_beams /\ ~args.opts.h5_folder.some)
SortedMatching == sorted(Matching)
\* what processing the file after the processed ones can raise, on the files given
RaisedByNext ==
    {o.exc : o \in batch_process_one(
                args.files, SortedMatching[Len(ret.processed) + 1], args.out_dir, args.opts,
                IF args.opts.strong_beams
                THEN Some(build_strong_beam_map(args.opts.h5_folder.value)) ELSE None,
                CHOOSE order \in iter_orders(
                    IF Truthy(args.opts.expr)
                    THEN compile_expr(args.opts.expr.value).ret.names ELSE {},
                    BatchColumns) : TRUE)} \ {NoExc}

\* C30: batch_run stops at the first failing file: when processing the k-th
\* file in sorted order raises, batch_run raises the same error, processes no
\* later file and writes no summary CSV, while the output CSVs written for the
\* files before the k-th remain; the expression is looked at only when a file
\* reaches the expression stage, so with no matching file an invalid
\* expression is never reported.
C30_StopsAtFirstFailure ==
    /\ (LoopEntered /\ ret.exc # NoExc) =>
          /\ Len(ret.processed) < Len(SortedMatching)
          /\ ret.processed = SubSeq(SortedMatching, 1, Len(ret.processed))
          /\ ret.exc \in RaisedByNext
          /\ args.opts.summary_csv.some => args.opts.summary_csv.value \notin DOMAIN files
          /\ \A j \in DOMAIN ret.processed :
                /\ out_path(args.out_dir, ret.processed[j]) \in DOMAIN files
                /\ files[out_path(args.out_dir, ret.processed[j])].kind = "csv"
          /\ \A q \in DOMAIN files \ DOMAIN args.files :
                \/ IsDir(q)
                \/ \E j \in 1..(Len(ret.processed) + 1) :
                      q = out_path(args.out_dir, SortedMatching[j])
    /\ (LoopEntered /\ ret.exc = NoExc) => Range(ret.processed) = Matching
    /\ (LoopEntered /\ Matching = {}) => ret.exc = NoExc

InvalidExprAtFirstFile ==
    /\ LoopEntered
    /\ args.files = BrokenFolder /\ args.opts.pattern = "*.csv"
    /\ args.opts.summary_csv.some /\ args.opts.expr = Some(BadText)
    /\ ~Truthy(args.opts.vector_mask) /\ ~Truthy(args.opts.raster_mask)
    /\ ret.exc.type = "ExprError"
    /\ ret.processed = <<>>

\* a run that fails at its second file leaves the output of the first
C30_Witness ==
    /\ LoopEntered /\ ret.exc # NoExc
    /\ Len(ret.processed) = 1
    /\ args.opts.summary_csv.some
    /\ out_path(args.out_dir, ret.processed[1]) \in DOMAIN files

====
